---- MODULE Spec2Model ----
(***************************************************************************)
(* A model of codemod: the patch-generation engine (Query, the suggestor   *)
(* adapters, Patch, Position, the path filter) and the interactive review  *)
(* loop with its bookmark file.                                            *)
(*                                                                         *)
(* Python strings are sequences of one-character strings; a value that may *)
(* be None is a sequence of length 0 (None) or 1 (the value).  Line and    *)
(* column numbers are 0-based as in the code; TLA+ sequences are 1-based,  *)
(* so element i of a Python list is seq[i + 1].                            *)
(***************************************************************************)
EXTENDS Integers, Sequences, FiniteSets, TLC

None == <<>>
Some(x) == <<x>>
IsNone(o) == Len(o) = 0
Get(o) == o[1]

\* F(v), with v evaluated once
Let1(v, F(_)) == CHOOSE y \in {F(x) : x \in {v}} : TRUE

Min(a, b) == IF a < b THEN a ELSE b
Max(a, b) == IF a > b THEN a ELSE b

NL == "\n"

\* Code points of the characters the model uses (Python compares strings
\* by code point).
Ord(c) ==
  CASE c = NL -> 10
    [] c = " " -> 32
    [] c = "%" -> 37
    [] c = "*" -> 42
    [] c = "-" -> 45
    [] c = "." -> 46
    [] c = "/" -> 47
    [] c = "0" -> 48
    [] c = "1" -> 49
    [] c = "2" -> 50
    [] c = "3" -> 51
    [] c = "4" -> 52
    [] c = "5" -> 53
    [] c = "6" -> 54
    [] c = "7" -> 55
    [] c = "8" -> 56
    [] c = "9" -> 57
    [] c = ":" -> 58
    [] c = "?" -> 63
    [] c = "A" -> 65
    [] c = "G" -> 71
    [] c = "S" -> 83
    [] c = "T" -> 84
    [] c = "a" -> 97
    [] c = "b" -> 98
    [] c = "c" -> 99
    [] c = "d" -> 100
    [] c = "g" -> 103
    [] c = "j" -> 106
    [] c = "s" -> 115
    [] c = "t" -> 116
    [] c = "x" -> 120
    [] c = "~" -> 126

\* str < str
RECURSIVE StrLess(_, _)
StrLess(s, t) ==
  IF t = <<>> THEN FALSE
  ELSE IF s = <<>> THEN TRUE
  ELSE IF s[1] # t[1] THEN Ord(s[1]) < Ord(t[1])
  ELSE StrLess(Tail(s), Tail(t))

\* seq[a:b] for 0 <= a, 0 <= b
PySlice(seq, a, b) ==
  IF a >= Min(b, Len(seq)) THEN <<>> ELSE SubSeq(seq, a + 1, Min(b, Len(seq)))

\* seq[a:] for 0 <= a
PyFrom(seq, a) == PySlice(seq, a, Len(seq))

\* str.startswith
StartsWith(s, prefix) ==
  Len(prefix) <= Len(s) /\ SubSeq(s, 1, Len(prefix)) = prefix

\* str.endswith
EndsWith(s, suffix) ==
  Len(suffix) <= Len(s) /\ SubSeq(s, Len(s) - Len(suffix) + 1, Len(s)) = suffix

\* sub in s
Contains(s, sub) ==
  \E i \in 0..(Len(s) - Len(sub)) : SubSeq(s, i + 1, i + Len(sub)) = sub

\* s.rfind(c): the 0-based index of the last c, or -1
RFind(s, c) ==
  IF \E i \in 1..Len(s) : s[i] = c
  THEN (CHOOSE i \in 1..Len(s) : s[i] = c /\ \A j \in (i + 1)..Len(s) : s[j] # c) - 1
  ELSE -1

\* ''.join(lines)
RECURSIVE Join(_)
Join(lines) == IF lines = <<>> THEN <<>> ELSE Head(lines) \o Join(Tail(lines))

\* s.split(sep), sep one character
RECURSIVE Split(_, _)
Split(s, sep) ==
  IF \E i \in 1..Len(s) : s[i] = sep
  THEN LET i == CHOOSE k \in 1..Len(s) : s[k] = sep /\ \A j \in 1..(k - 1) : s[j] # sep
       IN  <<SubSeq(s, 1, i - 1)>> \o Split(SubSeq(s, i + 1, Len(s)), sep)
  ELSE <<s>>

\* s.splitlines(True): the line terminator of the model's alphabet is "\n"
RECURSIVE Splitlines(_)
Splitlines(s) ==
  IF s = <<>> THEN <<>>
  ELSE IF \E i \in 1..Len(s) : s[i] = NL
  THEN LET i == CHOOSE k \in 1..Len(s) : s[k] = NL /\ \A j \in 1..(k - 1) : s[j] # NL
       IN  <<SubSeq(s, 1, i)>> \o Splitlines(SubSeq(s, i + 1, Len(s)))
  ELSE <<s>>

Digits == <<"0", "1", "2", "3", "4", "5", "6", "7", "8", "9">>
IsDigit(c) == \E i \in 1..10 : Digits[i] = c
DigitVal(c) == (CHOOSE i \in 1..10 : Digits[i] = c) - 1

\* '%d' % n
RECURSIVE NatToStr(_)
NatToStr(n) == IF n < 10 THEN <<Digits[n + 1]>> ELSE NatToStr(n \div 10) \o <<Digits[(n % 10) + 1]>>
IntToStr(n) == IF n < 0 THEN <<"-">> \o NatToStr(-n) ELSE NatToStr(n)

RECURSIVE DigitsToNat(_)
DigitsToNat(s) ==
  IF s = <<>> THEN 0 ELSE 10 * DigitsToNat(SubSeq(s, 1, Len(s) - 1)) + DigitVal(s[Len(s)])

\* s.strip(): the whitespace of the model's alphabet is " " and "\n"
IsSpace(c) == c = " " \/ c = NL
RECURSIVE Strip(_)
Strip(s) ==
  IF s = <<>> THEN s
  ELSE IF IsSpace(s[1]) THEN Strip(Tail(s))
  ELSE IF IsSpace(s[Len(s)]) THEN Strip(SubSeq(s, 1, Len(s) - 1))
  ELSE s

\* int(s): [ok, val]; a ValueError is ok = FALSE
PyInt(s0) ==
  LET s == Strip(s0)
      neg == s # <<>> /\ s[1] = "-"
      d == IF s # <<>> /\ s[1] \in {"-", "+"} THEN Tail(s) ELSE s
  IN  IF d # <<>> /\ \A i \in 1..Len(d) : IsDigit(d[i])
      THEN [ok |-> TRUE, val |-> IF neg THEN -DigitsToNat(d) ELSE DigitsToNat(d)]
      ELSE [ok |-> FALSE, val |-> 0]


(***************************************************************************)
(* Position                                                                *)
(***************************************************************************)

\* Position(path, line_number)
Position(path, line_number) == [path |-> path, line_number |-> line_number]

\* Position(None, None)
NoPosition == Position(None, None)

\* A variant of PositionFromStr: a line number that is no integer is taken
\* as 0, a string without a colon as a path
PositionFromStr_default(arg) ==
  LET parts == Split(arg, ":")
  IN  IF Len(parts) = 2
      THEN [ok |-> TRUE,
            pos |-> Position(Some(parts[1]),
                             Some(IF PyInt(parts[2]).ok THEN PyInt(parts[2]).val ELSE 0))]
      ELSE IF Len(parts) = 1 THEN [ok |-> TRUE, pos |-> Position(Some(parts[1]), Some(0))]
      ELSE [ok |-> FALSE, pos |-> NoPosition]

\* Position(arg) for a string arg: [ok, pos]; ok = FALSE is the ValueError
\* 'inappropriately formatted Position string'
PositionFromStr(arg) ==
  LET parts == Split(arg, ":")
  IN  IF Len(parts) = 2 /\ PyInt(parts[2]).ok
      THEN [ok |-> TRUE, pos |-> Position(Some(parts[1]), Some(PyInt(parts[2]).val))]
      ELSE [ok |-> FALSE, pos |-> NoPosition]

\* str(position): '%s:%d' % (self.path, self.line_number)
PositionStr(pos) == Get(pos.path) \o <<":">> \o IntToStr(Get(pos.line_number))

(***************************************************************************)
(* Patch                                                                   *)
(***************************************************************************)

\* Patch(start_line_number, end_line_number, new_lines, path).  new_lines is
\* given as [tag |-> "none" | "list" | "str", v |-> ...]; the patch holds
\* None or a list of lines.
Patch(start_line_number, end_line_number, new_lines, path) ==
  [path |-> path,
   start_line_number |-> start_line_number,
   end_line_number |-> IF IsNone(end_line_number) THEN start_line_number + 1
                       ELSE Get(end_line_number),
   new_lines |-> CASE new_lines.tag = "none" -> None
                   [] new_lines.tag = "list" -> Some(new_lines.v)
                   [] new_lines.tag = "str" -> Some(Splitlines(new_lines.v))]

NewLinesNone == [tag |-> "none", v |-> <<>>]
NewLinesList(l) == [tag |-> "list", v |-> l]
NewLinesStr(s) == [tag |-> "str", v |-> s]

\* A variant of apply_to: the patch is taken to cover one line
apply_to_one_line(patch, lines) ==
  IF IsNone(patch.new_lines)
  THEN [ok |-> FALSE, lines |-> lines]
  ELSE [ok |-> TRUE,
        lines |-> PySlice(lines, 0, patch.start_line_number)
                  \o Get(patch.new_lines)
                  \o PyFrom(lines, patch.start_line_number + 1)]

\* A variant of apply_to: a patch without new lines is not applied
apply_to_silent(patch, lines) ==
  IF IsNone(patch.new_lines)
  THEN [ok |-> TRUE, lines |-> lines]
  ELSE [ok |-> TRUE,
        lines |-> PySlice(lines, 0, patch.start_line_number)
                  \o Get(patch.new_lines)
                  \o PyFrom(lines, Max(patch.start_line_number, patch.end_line_number))]

\* patch.apply_to(lines): [ok, lines]; ok = FALSE is the ValueError
\* "Can't apply patch without suggested new lines."
apply_to(patch, lines) ==
  IF IsNone(patch.new_lines)
  THEN [ok |-> FALSE, lines |-> lines]
  ELSE [ok |-> TRUE,
        lines |-> PySlice(lines, 0, patch.start_line_number)
                  \o Get(patch.new_lines)
                  \o PyFrom(lines, Max(patch.start_line_number, patch.end_line_number))]

\* patch.start_position
PatchStartPosition(patch) == Position(patch.path, Some(patch.start_line_number))

(***************************************************************************)
(* helpers: the path filter                                                *)
(***************************************************************************)

\* os.path.splitext(path)[1]
SplitExt(path) ==
  LET sepIndex == RFind(path, "/")
      dotIndex == RFind(path, ".")
  IN  IF dotIndex > sepIndex
         /\ \E i \in (sepIndex + 1)..(dotIndex - 1) : path[i + 1] # "."
      THEN PyFrom(path, dotIndex)
      ELSE <<>>

\* os.path.basename(path)
Basename(path) == PyFrom(path, RFind(path, "/") + 1)

is_extensionless(path) == SplitExt(path) = <<>>

\* fnmatch.fnmatch(name, pat) with the wildcards * and ?
RECURSIVE fnmatch(_, _)
fnmatch(name, pat) ==
  IF pat = <<>> THEN name = <<>>
  ELSE IF pat[1] = "*"
       THEN \E k \in 0..Len(name) : fnmatch(PyFrom(name, k), Tail(pat))
  ELSE IF name = <<>> THEN FALSE
  ELSE (pat[1] = "?" \/ pat[1] = name[1]) /\ fnmatch(Tail(name), Tail(pat))

matches_extension(path, extension) ==
  LET ext == SplitExt(path)
  IN  IF ext = <<>> THEN Basename(path) = extension
      ELSE fnmatch(Tail(ext), extension)

\* A variant of the_filter: an excluded entry is a prefix only, no glob
the_filter_prefix_only(extensions, exclude_paths, path) ==
  IF ~ \E i \in 1..Len(extensions) : matches_extension(path, extensions[i])
  THEN FALSE
  ELSE ~ \E i \in 1..Len(exclude_paths) :
           \/ StartsWith(path, exclude_paths[i])
           \/ StartsWith(path, <<".", "/">> \o exclude_paths[i])

\* path_filter(extensions, exclude_paths)(path)
the_filter(extensions, exclude_paths, path) ==
  IF ~ \E i \in 1..Len(extensions) : matches_extension(path, extensions[i])
  THEN FALSE
  ELSE ~ \E i \in 1..Len(exclude_paths) :
           \/ StartsWith(path, exclude_paths[i])
           \/ StartsWith(path, <<".", "/">> \o exclude_paths[i])
           \/ fnmatch(path, exclude_paths[i])

(***************************************************************************)
(* Regular expressions.  A pattern is [kind |-> "lit", s |-> chars] (the   *)
(* literal string s, which may be empty or hold "\n") or                   *)
(* [kind |-> "plus", s |-> <<c>>] (the greedy c+) or                       *)
(* [kind |-> "star", s |-> <<c>>] (the greedy c*, which matches the empty  *)
(* string where no c stands) or [kind |-> "alt", s |-> chars] (literal     *)
(* alternatives separated by "|", tried from left to right).               *)
(***************************************************************************)

\* The end (exclusive, 0-based) of the match of regex that starts at offset
\* i of buf, or -1 when none starts there.
RECURSIVE RunEnd(_, _, _)
RunEnd(buf, c, i) == IF i < Len(buf) /\ buf[i + 1] = c THEN RunEnd(buf, c, i + 1) ELSE i

\* The end of the literal lit at offset i of buf, -1 if it is not there
LitAt(buf, lit, i) ==
  IF i + Len(lit) <= Len(buf) /\ PySlice(buf, i, i + Len(lit)) = lit
  THEN i + Len(lit) ELSE -1

\* The end of the first alternative that stands at offset i of buf
AltAt(buf, alts, i) ==
  LET hits == {k \in 1..Len(alts) : LitAt(buf, alts[k], i) # -1}
  IN  IF hits = {} THEN -1
      ELSE LitAt(buf, alts[CHOOSE k \in hits : \A j \in hits : k <= j], i)

MatchAt(regex, buf, i) ==
  IF regex.kind = "alt" THEN AltAt(buf, Split(regex.s, "|"), i)
  ELSE IF regex.kind = "lit"
  THEN IF i + Len(regex.s) <= Len(buf) /\ PySlice(buf, i, i + Len(regex.s)) = regex.s
       THEN i + Len(regex.s) ELSE -1
  ELSE IF regex.kind = "star" THEN RunEnd(buf, regex.s[1], i)
  ELSE IF i < Len(buf) /\ buf[i + 1] = regex.s[1]
       THEN RunEnd(buf, regex.s[1], i) ELSE -1

\* regex.search(buf, pos): [found, start, end]
re_search(regex, buf, pos) ==
  IF \E i \in pos..Len(buf) : MatchAt(regex, buf, i) # -1
  THEN LET i == CHOOSE k \in pos..Len(buf) :
                  /\ MatchAt(regex, buf, k) # -1
                  /\ \A j \in pos..(k - 1) : MatchAt(regex, buf, j) = -1
       IN  [found |-> TRUE, start |-> i, end |-> MatchAt(regex, buf, i)]
  ELSE [found |-> FALSE, start |-> 0, end |-> 0]

\* regex.sub(repl, buf), from offset i on: every non-overlapping match,
\* left to right, is replaced by repl (a template without group references)
RECURSIVE SubFrom(_, _, _, _)
SubFrom(regex, repl, buf, i) ==
  LET m == MatchAt(regex, buf, i)
      copy == IF i < Len(buf) THEN <<buf[i + 1]>> \o SubFrom(regex, repl, buf, i + 1)
              ELSE <<>>
  IN  IF m = -1 THEN copy
      ELSE IF m > i THEN repl \o SubFrom(regex, repl, buf, m)
      ELSE repl \o copy

re_sub(regex, repl, buf) == SubFrom(regex, repl, buf, 0)

(***************************************************************************)
(* The suggestors.  A suggestor is a record                                *)
(*   [kind |-> "line" | "multiline", transformation |-> "regex" | "flag",  *)
(*    regex, has_subst, subst, line_filter |-> "none" | "has_b"]           *)
(* and the position of its generator is a number: the next index of        *)
(* enumerate(lines) for a line suggestor, pos for the multi-line one.      *)
(***************************************************************************)

NoPatch == Patch(0, None, NewLinesNone, None)

SuggestorEnd == [kind |-> "end", patch |-> NoPatch, st |-> 0]
SuggestorError == [kind |-> "IndexError", patch |-> NoPatch, st |-> 0]
SuggestorYield(patch, st) == [kind |-> "patch", patch |-> patch, st |-> st]

\* The line_transformation of regex_suggestor (transformation = "regex"), or
\* a transformation that never has a suggestion (transformation = "flag").
\* None: no suggestion.
line_transformation(sugg, line) ==
  IF sugg.transformation = "regex"
  THEN IF ~sugg.has_subst
       THEN IF re_search(sugg.regex, line, 0).found THEN None ELSE Some(line)
       ELSE Some(re_sub(sugg.regex, sugg.subst, line))
  ELSE None

\* A variant of LineFiltered: no line is filtered out
LineFiltered_never(sugg, line) == FALSE

\* line_filter and not line_filter(line)
LineFiltered(sugg, line) ==
  sugg.line_filter = "has_b" /\ ~Contains(line, <<"b">>)

\* A variant of LineSuggestorNext: the patch names its line counted from 1
RECURSIVE LineSuggestorNext_from_one(_, _, _)
LineSuggestorNext_from_one(sugg, lines, i) ==
  IF i >= Len(lines) THEN SuggestorEnd
  ELSE IF LineFiltered(sugg, lines[i + 1])
       THEN LineSuggestorNext_from_one(sugg, lines, i + 1)
  ELSE LET candidate == line_transformation(sugg, lines[i + 1])
       IN  IF IsNone(candidate)
           THEN SuggestorYield(Patch(i + 1, None, NewLinesNone, None), i + 1)
           ELSE SuggestorYield(Patch(i + 1, None, NewLinesList(<<Get(candidate)>>), None),
                               i + 1)

\* line_transformation_suggestor: the next patch of the generator that
\* stands before index i of enumerate(lines)
RECURSIVE LineSuggestorNext(_, _, _)
LineSuggestorNext(sugg, lines, i) ==
  IF i >= Len(lines) THEN SuggestorEnd
  ELSE IF LineFiltered(sugg, lines[i + 1]) THEN LineSuggestorNext(sugg, lines, i + 1)
  ELSE LET candidate == line_transformation(sugg, lines[i + 1])
       IN  IF IsNone(candidate)
           THEN SuggestorYield(Patch(i, None, NewLinesNone, None), i + 1)
           ELSE SuggestorYield(Patch(i, None, NewLinesList(<<Get(candidate)>>), None), i + 1)

\* _index_to_row_col(lines, index): [ok, row, col]; ok = FALSE is IndexError
RECURSIVE IndexToRowColFrom(_, _, _, _)
IndexToRowColFrom(lines, index, line_number, current_index) ==
  IF line_number >= Len(lines) THEN [ok |-> FALSE, row |-> 0, col |-> 0]
  ELSE IF current_index + Len(lines[line_number + 1]) > index
       THEN [ok |-> TRUE, row |-> line_number, col |-> index - current_index]
       ELSE IndexToRowColFrom(lines, index, line_number + 1,
                              current_index + Len(lines[line_number + 1]))

\* A variant of index_to_row_col: a line is taken when the running length
\* reaches the index
RECURSIVE IndexToRowColFrom_reaches(_, _, _, _)
IndexToRowColFrom_reaches(lines, index, line_number, current_index) ==
  IF line_number >= Len(lines) THEN [ok |-> FALSE, row |-> 0, col |-> 0]
  ELSE IF current_index + Len(lines[line_number + 1]) >= index
       THEN [ok |-> TRUE, row |-> line_number, col |-> index - current_index]
       ELSE IndexToRowColFrom_reaches(lines, index, line_number + 1,
                                      current_index + Len(lines[line_number + 1]))

index_to_row_col_reaches(lines, index) ==
  IF index < 0 THEN [ok |-> FALSE, row |-> 0, col |-> 0]
  ELSE IndexToRowColFrom_reaches(lines, index, 0, 0)

index_to_row_col(lines, index) ==
  IF index < 0 THEN [ok |-> FALSE, row |-> 0, col |-> 0]
  ELSE IndexToRowColFrom(lines, index, 0, 0)

\* The cursor of multiline_regex_suggestor after a match was yielded
MultilineAdvance(match) == match.start + 1

\* A variant of MultilineSuggestorNext: the rest of the end line is taken
\* from the last character of the match on
MultilineSuggestorNext_from_end_col(sugg, lines, pos) ==
  Let1(re_search(sugg.regex, Join(lines), pos), LAMBDA match :
    IF ~match.found THEN SuggestorEnd
    ELSE Let1(<<index_to_row_col(lines, match.start),
                index_to_row_col(lines, match.end - 1)>>, LAMBDA rc :
           IF ~rc[1].ok \/ ~rc[2].ok THEN SuggestorError
           ELSE SuggestorYield(
                  Patch(rc[1].row, Some(rc[2].row + 1),
                        IF ~sugg.has_subst THEN NewLinesNone
                        ELSE NewLinesStr(PySlice(lines[rc[1].row + 1], 0, rc[1].col)
                                         \o sugg.subst
                                         \o PyFrom(lines[rc[2].row + 1], rc[2].col)),
                        None),
                  MultilineAdvance(match))))

\* multiline_regex_suggestor: the next patch of the generator whose cursor
\* is pos
MultilineSuggestorNext(sugg, lines, pos) ==
  Let1(re_search(sugg.regex, Join(lines), pos), LAMBDA match :
    IF ~match.found THEN SuggestorEnd
    ELSE Let1(<<index_to_row_col(lines, match.start),
                index_to_row_col(lines, match.end - 1)>>, LAMBDA rc :
           IF ~rc[1].ok \/ ~rc[2].ok THEN SuggestorError
           ELSE SuggestorYield(
                  Patch(rc[1].row, Some(rc[2].row + 1),
                        IF ~sugg.has_subst THEN NewLinesNone
                        ELSE NewLinesStr(PySlice(lines[rc[1].row + 1], 0, rc[1].col)
                                         \o sugg.subst
                                         \o PyFrom(lines[rc[2].row + 1], rc[2].col + 1)),
                        None),
                  MultilineAdvance(match))))

\* next(suggestor(lines)) for the generator at position st
SuggestorNext(sugg, lines, st) ==
  IF sugg.kind = "line" THEN LineSuggestorNext(sugg, lines, st)
  ELSE MultilineSuggestorNext(sugg, lines, st)

(***************************************************************************)
(* The file tree.  disk[path] is [listed, status, lines]: listed says that *)
(* os.walk reports the path, status is "ok" or the error that open/read    *)
(* raises ("IOError", "UnicodeDecodeError"), lines is list(open(path)).    *)
(***************************************************************************)

\* list(open(path)): [status, lines]
ReadFile(d, path) ==
  IF path \in DOMAIN d /\ d[path].status = "ok"
  THEN [status |-> "ok", lines |-> d[path].lines]
  ELSE [status |-> IF path \in DOMAIN d THEN d[path].status ELSE "IOError", lines |-> <<>>]

\* paths.sort()
RECURSIVE Insert(_, _)
Insert(sorted, x) ==
  IF sorted = <<>> THEN <<x>>
  ELSE IF StrLess(x, Head(sorted)) THEN <<x>> \o sorted
  ELSE <<Head(sorted)>> \o Insert(Tail(sorted), x)

RECURSIVE Sort(_)
Sort(paths) == IF paths = <<>> THEN <<>> ELSE Insert(Sort(Tail(paths)), Head(paths))

(***************************************************************************)
(* Query.  The query is a record [suggestor, _start, _end, extensions,     *)
(* exclude_paths, inc_extensionless, _all_patches_cache]; an endpoint is   *)
(* [tag |-> "none" | "str" | "pos", s |-> chars, pos |-> Position].        *)
(***************************************************************************)

EndpointNone == [tag |-> "none", s |-> <<>>, pos |-> NoPosition]
EndpointStr(s) == [tag |-> "str", s |-> s, pos |-> NoPosition]
EndpointPos(pos) == [tag |-> "pos", s |-> <<>>, pos |-> pos]

\* Query._path_looks_like_code
path_looks_like_code(path) ==
  /\ ~Contains(path, <<"/", ".">>)
  /\ path[Len(path)] # "~"
  /\ ~EndsWith(path, <<"t", "a", "g", "s">>)
  /\ ~EndsWith(path, <<"T", "A", "G", "S">>)

\* The condition of the path_list generator expression of generate_patches
PathSelected(q, path) ==
  \/ path_looks_like_code(path) /\ the_filter(q.extensions, q.exclude_paths, path)
  \/ q.inc_extensionless /\ is_extensionless(path)

\* Query._sublist(items, starting_value, ending_value), as a list
RECURSIVE SublistFrom(_, _, _, _)
SublistFrom(items, starting_value, ending_value, have_started) ==
  IF items = <<>> THEN <<>>
  ELSE LET x == Head(items)
           started == have_started \/ Some(x) = starting_value
           rest == IF ~IsNone(ending_value) /\ Some(x) = ending_value THEN <<>>
                   ELSE SublistFrom(Tail(items), starting_value, ending_value, started)
       IN  IF started THEN <<x>> \o rest ELSE rest

\* A variant of sublist: the run stops before the ending value
RECURSIVE SublistFrom_before_end(_, _, _, _)
SublistFrom_before_end(items, starting_value, ending_value, have_started) ==
  IF items = <<>> THEN <<>>
  ELSE LET x == Head(items)
           started == have_started \/ Some(x) = starting_value
       IN  IF ~IsNone(ending_value) /\ Some(x) = ending_value THEN <<>>
           ELSE IF started
                THEN <<x>> \o SublistFrom_before_end(Tail(items), starting_value,
                                                     ending_value, started)
                ELSE SublistFrom_before_end(Tail(items), starting_value, ending_value,
                                            started)

sublist_before_end(items, starting_value, ending_value) ==
  SublistFrom_before_end(items, starting_value, ending_value, IsNone(starting_value))

\* A variant of sublist: a starting value that is not among the items does
\* not hold the run back
sublist_all_if_missing(items, starting_value, ending_value) ==
  SublistFrom(items, starting_value, ending_value,
              IsNone(starting_value)
              \/ \A i \in 1..Len(items) : items[i] # Get(starting_value))

sublist(items, starting_value, ending_value) ==
  SublistFrom(items, starting_value, ending_value, IsNone(starting_value))

(***************************************************************************)
(* Query.generate_patches.  The generator is a record                      *)
(*   [pc, start_pos, end_pos, path_list, path, lines, st]                  *)
(* with pc "created" (the body has not started), "suspended" (at the       *)
(* yield), "done" (exhausted) or "raised" (ended by an exception);         *)
(* path_list holds the paths not yet opened, path and lines the open file, *)
(* st the position of the suggestor's generator over lines.  One resume    *)
(* gives [gen, yielded, err]: the patch yielded (None at the end) and the  *)
(* exception that reached the caller ("" when none did).                   *)
(***************************************************************************)

NewGenerator ==
  [pc |-> "created", start_pos |-> NoPosition, end_pos |-> NoPosition,
   path_list |-> <<>>, path |-> None, lines |-> <<>>, st |-> 0]

GenYield(g, patch) == [gen |-> [g EXCEPT !.pc = "suspended"], yielded |-> Some(patch), err |-> ""]
GenDone(g) ==
  [gen |-> [g EXCEPT !.pc = "done", !.path_list = <<>>, !.path = None, !.lines = <<>>, !.st = 0],
   yielded |-> None, err |-> ""]
GenRaise(g, err) ==
  [gen |-> [g EXCEPT !.pc = "raised", !.path_list = <<>>, !.path = None, !.lines = <<>>, !.st = 0],
   yielded |-> None, err |-> err]

\* A variant of PreStart: a patch that starts on the start line is dropped too
PreStart_le(g, patch) ==
  g.path = g.start_pos.path /\ patch.start_line_number <= Get(g.start_pos.line_number)

\* if path == start_pos.path: if patch.start_line_number < start_pos.line_number
PreStart(g, patch) ==
  g.path = g.start_pos.path /\ patch.start_line_number < Get(g.start_pos.line_number)

\* if path == end_pos.path: if patch.end_line_number >= end_pos.line_number
PostEnd(g, patch) ==
  g.path = g.end_pos.path /\ patch.end_line_number >= Get(g.end_pos.line_number)

\* A variant of Surfaced: every candidate is yielded
Surfaced_every(patch, lines) == TRUE

\* if patch.new_lines is None or patch.new_lines != old_lines
Surfaced(patch, lines) ==
  \/ IsNone(patch.new_lines)
  \/ Get(patch.new_lines) # PySlice(lines, patch.start_line_number, patch.end_line_number)

\* The first read of a file: the errors that skip the file
SkippedOnOpen(status) == status \in {"IOError", "UnicodeDecodeError"}

\* GenInFile: the loop 'for patch in self.suggestor(lines)' from the
\* suggestor position g.st on.  GenNextFile: the loop 'for path in
\* path_list' from the head of g.path_list on.
RECURSIVE GenInFile(_, _, _), GenNextFile(_, _, _)
GenInFile(q, g, d) ==
  Let1(SuggestorNext(q.suggestor, g.lines, g.st), LAMBDA r :
    CASE r.kind = "end" -> GenNextFile(q, g, d)
      [] r.kind = "IndexError" -> GenRaise(g, "IndexError")
      [] r.kind = "patch" ->
           IF PreStart(g, r.patch) THEN GenInFile(q, [g EXCEPT !.st = r.st], d)
           ELSE IF PostEnd(g, r.patch) THEN GenNextFile(q, [g EXCEPT !.st = r.st], d)
           ELSE IF Surfaced(r.patch, g.lines)
                THEN GenYield([g EXCEPT !.st = r.st], [r.patch EXCEPT !.path = g.path])
                ELSE GenInFile(q, [g EXCEPT !.st = r.st], d))

GenNextFile(q, g, d) ==
  IF g.path_list = <<>> THEN GenDone(g)
  ELSE Let1(ReadFile(d, Head(g.path_list)), LAMBDA f :
         IF f.status = "ok"
         THEN GenInFile(q, [g EXCEPT !.path_list = Tail(g.path_list),
                                     !.path = Some(Head(g.path_list)),
                                     !.lines = f.lines, !.st = 0], d)
         ELSE IF SkippedOnOpen(f.status)
              THEN GenNextFile(q, [g EXCEPT !.path_list = Tail(g.path_list)], d)
              ELSE GenRaise(g, f.status))

\* The raw order in which os.walk reports the files of the tree
WalkOrder ==
  << <<".", "/", "c", ":", "d", ".", "j", "s">>,
     <<".", "/", "t", "a", "g", "s">>,
     <<".", "/", "d">>,
     <<".", "/", "b", ".", "j", "s">>,
     <<".", "/", "a", ".", "j", "s">> >>

os_walk(d) == SelectSeq(WalkOrder, LAMBDA p : p \in DOMAIN d /\ d[p].listed)

\* A variant of walk_directory: the paths in the order os.walk reports them
walk_directory_unsorted(d) == os_walk(d)

\* Query._walk_directory
walk_directory(d) == Sort(os_walk(d))

\* generate_patches from 'path_list = Query._walk_directory(...)' to the
\* first yield, with the start and end positions resolved
GenStartAt(q, start_pos, end_pos, d) ==
  GenNextFile(q, [NewGenerator EXCEPT
                    !.start_pos = start_pos, !.end_pos = end_pos,
                    !.path_list = SelectSeq(sublist(walk_directory(d), start_pos.path,
                                                    end_pos.path),
                                            LAMBDA p : PathSelected(q, p))], d)

\* A variant of GenAfterYield: the generator continues on the lines it read
\* when it opened the file
GenAfterYield_stale(q, g, d) == GenInFile(q, g, d)

\* A variant of GenAfterYield: the remaining paths are listed anew
GenAfterYield_rescan(q, g, d) ==
  Let1(ReadFile(d, Get(g.path)), LAMBDA f :
    IF f.status = "ok"
    THEN GenInFile(q, [g EXCEPT !.lines = f.lines,
                                !.path_list = SelectSeq(walk_directory(d), LAMBDA p :
                                                StrLess(Get(g.path), p) /\ PathSelected(q, p))],
                   d)
    ELSE GenRaise(g, f.status))

\* The generator resumed after a yield: 'lines[:] = list(open(path))', then
\* the suggestor's generator continues
GenAfterYield(q, g, d) ==
  Let1(ReadFile(d, Get(g.path)), LAMBDA f :
    IF f.status = "ok" THEN GenInFile(q, [g EXCEPT !.lines = f.lines], d)
    ELSE GenRaise(g, f.status))

\* list(generator) for a generator whose last resume gave r0:
\* [ok, err, patches]
RECURSIVE Drain(_, _, _, _)
Drain(q, r0, d, acc) ==
  Let1(r0, LAMBDA r :
    IF r.err # "" THEN [ok |-> FALSE, err |-> r.err, patches |-> acc]
    ELSE IF IsNone(r.yielded) THEN [ok |-> TRUE, err |-> "", patches |-> acc]
    ELSE Drain(q, GenAfterYield(q, r.gen, d), d, Append(acc, Get(r.yielded))))

Answer(ok, err, q, ret, traversals) ==
  [ok |-> ok, err |-> err, query |-> q, ret |-> ret, traversals |-> traversals]

\* A variant of get_all_patches: the traversal keeps the endpoints of the
\* query that are Positions
get_all_patches_windowed(q, dont_use_cache, d) ==
  IF ~dont_use_cache /\ ~IsNone(q._all_patches_cache)
  THEN Answer(TRUE, "", q, Get(q._all_patches_cache), 0)
  ELSE Let1(Drain(q, GenStartAt(q, IF q._start.tag = "pos" THEN q._start.pos ELSE NoPosition,
                                IF q._end.tag = "pos" THEN q._end.pos ELSE NoPosition, d),
                  d, <<>>), LAMBDA all :
         IF all.ok
         THEN Answer(TRUE, "", [q EXCEPT !._all_patches_cache = Some(all.patches)],
                     all.patches, 1)
         ELSE Answer(FALSE, all.err, q, <<>>, 1))

\* Query.get_all_patches: [ok, err, query, ret, traversals], ret the list
get_all_patches(q, dont_use_cache, d) ==
  IF ~dont_use_cache /\ ~IsNone(q._all_patches_cache)
  THEN Answer(TRUE, "", q, Get(q._all_patches_cache), 0)
  ELSE Let1(Drain(q, GenStartAt(q, NoPosition, NoPosition, d), d, <<>>), LAMBDA all :
         IF all.ok
         THEN Answer(TRUE, "", [q EXCEPT !._all_patches_cache = Some(all.patches)],
                     all.patches, 1)
         ELSE Answer(FALSE, all.err, q, <<>>, 1))

\* A variant of PercentileIndex: the index rounded to the nearest integer
PercentileIndex_round(len, percentage) == (len * percentage + 50) \div 100

\* int(len(all_patches) * percentage / 100)
PercentileIndex(len, percentage) ==
  IF len * percentage >= 0 THEN (len * percentage) \div 100
  ELSE -((-(len * percentage)) \div 100)

\* list[index], index possibly negative: [ok, v]; ok = FALSE is IndexError
PyIndex(list, index) ==
  IF 0 <= index /\ index < Len(list) THEN [ok |-> TRUE, v |-> list[index + 1]]
  ELSE IF index < 0 /\ 0 <= index + Len(list)
       THEN [ok |-> TRUE, v |-> list[index + Len(list) + 1]]
  ELSE [ok |-> FALSE, v |-> NoPatch]

\* Query.compute_percentile: [ok, err, query, ret, traversals], ret the
\* Position
compute_percentile(q, percentage, d) ==
  Let1(get_all_patches(q, FALSE, d), LAMBDA all :
    IF ~all.ok THEN Answer(FALSE, all.err, all.query, NoPosition, all.traversals)
    ELSE Let1(PyIndex(all.ret, PercentileIndex(Len(all.ret), percentage)), LAMBDA at :
           IF ~at.ok
           THEN Answer(FALSE, "IndexError", all.query, NoPosition, all.traversals)
           ELSE Answer(TRUE, "", all.query, PatchStartPosition(at.v), all.traversals)))

SetAttr(q, attr_name, v) ==
  IF attr_name = "_start" THEN [q EXCEPT !._start = v] ELSE [q EXCEPT !._end = v]

\* A variant of get_position: the resolved percentage is not stored
get_position_nostore(q, attr_name, d) ==
  Let1(IF attr_name = "_start" THEN q._start ELSE q._end, LAMBDA attr_value :
    CASE attr_value.tag = "none" -> Answer(TRUE, "", q, None, 0)
      [] attr_value.tag = "pos" -> Answer(TRUE, "", q, Some(attr_value.pos), 0)
      [] attr_value.tag = "str" /\ EndsWith(attr_value.s, <<"%">>) ->
           Let1(PyInt(SubSeq(attr_value.s, 1, Len(attr_value.s) - 1)), LAMBDA n :
             IF ~n.ok THEN Answer(FALSE, "ValueError", q, None, 0)
             ELSE Let1(compute_percentile(q, n.val, d), LAMBDA c :
                    IF ~c.ok THEN Answer(FALSE, c.err, c.query, None, c.traversals)
                    ELSE Answer(TRUE, "", c.query, Some(c.ret), c.traversals)))
      [] OTHER ->
           Let1(PositionFromStr(attr_value.s), LAMBDA parsed :
             IF parsed.ok THEN Answer(TRUE, "", q, Some(parsed.pos), 0)
             ELSE Answer(FALSE, "ValueError", q, None, 0)))

\* Query._get_position(attr_name): [ok, err, query, ret, traversals], ret
\* None or the Position
get_position(q, attr_name, d) ==
  Let1(IF attr_name = "_start" THEN q._start ELSE q._end, LAMBDA attr_value :
    CASE attr_value.tag = "none" -> Answer(TRUE, "", q, None, 0)
      [] attr_value.tag = "pos" -> Answer(TRUE, "", q, Some(attr_value.pos), 0)
      [] attr_value.tag = "str" /\ EndsWith(attr_value.s, <<"%">>) ->
           Let1(PyInt(SubSeq(attr_value.s, 1, Len(attr_value.s) - 1)), LAMBDA n :
             IF ~n.ok THEN Answer(FALSE, "ValueError", q, None, 0)
             ELSE Let1(compute_percentile(q, n.val, d), LAMBDA c :
                    IF ~c.ok THEN Answer(FALSE, c.err, c.query, None, c.traversals)
                    ELSE Answer(TRUE, "", SetAttr(c.query, attr_name, EndpointPos(c.ret)),
                                Some(c.ret), c.traversals)))
      [] OTHER ->
           Let1(PositionFromStr(attr_value.s), LAMBDA parsed :
             IF parsed.ok THEN Answer(TRUE, "", q, Some(parsed.pos), 0)
             ELSE Answer(FALSE, "ValueError", q, None, 0)))

Resumed(r, q, traversals) ==
  [gen |-> r.gen, yielded |-> r.yielded, err |-> r.err, query |-> q,
   traversals |-> traversals]

\* self.start_position or Position(None, None)
OrNoPosition(pos) == IF IsNone(pos) THEN NoPosition ELSE Get(pos)

\* next(generator) of query.generate_patches():
\* [gen, yielded, err, query, traversals]
GenResume(q, g, d) ==
  CASE g.pc = "created" ->
         Let1(get_position(q, "_start", d), LAMBDA sp :
           IF ~sp.ok THEN Resumed(GenRaise(g, sp.err), sp.query, sp.traversals)
           ELSE Let1(get_position(sp.query, "_end", d), LAMBDA ep :
                  IF ~ep.ok
                  THEN Resumed(GenRaise(g, ep.err), ep.query, sp.traversals + ep.traversals)
                  ELSE Let1(GenStartAt(ep.query, OrNoPosition(sp.ret),
                                       OrNoPosition(ep.ret), d), LAMBDA r :
                         Resumed(r, ep.query, sp.traversals + ep.traversals))))
    [] g.pc = "suspended" -> Let1(GenAfterYield(q, g, d), LAMBDA r : Resumed(r, q, 0))
    [] OTHER -> Resumed([gen |-> g, yielded |-> None, err |-> ""], q, 0)

(***************************************************************************)
(* The bounded universe: file trees, suggestors, windows.                  *)
(***************************************************************************)

\* The longest file of a tree the model starts from, in lines
MaxLines == 2
\* How many times the consumer of SpecQuery changes the tree
MaxEdits == 1
\* How many full traversals SpecQuery lets the query run
MaxTraversals == 2
\* How many times the program is run in Spec
MaxSessions == 2
\* The longest file that the review loop writes, in characters
MaxFileChars == 8

PathA == <<".", "/", "a", ".", "j", "s">>
PathB == <<".", "/", "b", ".", "j", "s">>
PathC == <<".", "/", "c", ":", "d", ".", "j", "s">>
PathTags == <<".", "/", "t", "a", "g", "s">>
AllPaths == {PathA, PathB, PathC, PathTags}

LineAA == <<"a", "a", NL>>
LineB == <<"b", NL>>
LineBB == <<"b", "b", NL>>
LineSet == {LineAA, LineB}

\* The files of at most n lines over LineSet
RECURSIVE Contents(_)
Contents(n) ==
  IF n = 0 THEN {<<>>}
  ELSE Contents(n - 1) \cup
       {Append(c, l) : c \in {x \in Contents(n - 1) : Len(x) = n - 1}, l \in LineSet}

File(lines) == [listed |-> TRUE, status |-> "ok", lines |-> lines]
Unreadable(status) == [listed |-> TRUE, status |-> status, lines |-> <<>>]
\* No file at the path
Absent == [listed |-> FALSE, status |-> "IOError", lines |-> <<>>]
\* The file after _save(path, lines): the lines are written one after the
\* other, and list(open(path)) splits what was written at its terminators
SavedFile(lines) == File(Splitlines(Join(lines)))

\* No file of the tree is longer than the model lets files grow
WithinBounds(d) == \A p \in DOMAIN d : Len(Join(d[p].lines)) <= MaxFileChars

RegexA == [kind |-> "lit", s |-> <<"a">>]
RegexANlB == [kind |-> "lit", s |-> <<"a", NL, "b">>]

\* regex_suggestor('a')
SuggestFlag ==
  [kind |-> "line", transformation |-> "regex", regex |-> RegexA, has_subst |-> FALSE,
   subst |-> <<>>, line_filter |-> "none"]
\* regex_suggestor('a', 'b')
SuggestSub ==
  [kind |-> "line", transformation |-> "regex", regex |-> RegexA, has_subst |-> TRUE,
   subst |-> <<"b">>, line_filter |-> "none"]
\* line_transformation_suggestor(lambda line: None, lambda line: 'b' in line)
SuggestFiltered ==
  [kind |-> "line", transformation |-> "flag", regex |-> RegexA, has_subst |-> FALSE,
   subst |-> <<>>, line_filter |-> "has_b"]
\* multiline_regex_suggestor('a', 'b')
SuggestMulti ==
  [kind |-> "multiline", transformation |-> "regex", regex |-> RegexA, has_subst |-> TRUE,
   subst |-> <<"b">>, line_filter |-> "none"]
\* multiline_regex_suggestor('a\nb', 'b')
SuggestSpan ==
  [kind |-> "multiline", transformation |-> "regex", regex |-> RegexANlB, has_subst |-> TRUE,
   subst |-> <<"b">>, line_filter |-> "none"]
Suggestors == {SuggestFlag, SuggestSub, SuggestFiltered, SuggestMulti, SuggestSpan}

RegexAStar == [kind |-> "star", s |-> <<"a">>]
RegexEmpty == [kind |-> "lit", s |-> <<>>]
\* multiline_regex_suggestor('a*', 'b')
SuggestMultiStar ==
  [kind |-> "multiline", transformation |-> "regex", regex |-> RegexAStar, has_subst |-> TRUE,
   subst |-> <<"b">>, line_filter |-> "none"]
\* multiline_regex_suggestor('')
SuggestMultiEmpty ==
  [kind |-> "multiline", transformation |-> "regex", regex |-> RegexEmpty, has_subst |-> FALSE,
   subst |-> <<>>, line_filter |-> "none"]
\* regex_suggestor('a*', 'b')
SuggestSubStar ==
  [kind |-> "line", transformation |-> "regex", regex |-> RegexAStar, has_subst |-> TRUE,
   subst |-> <<"b">>, line_filter |-> "none"]

Percent(n) == EndpointStr(IntToStr(n) \o <<"%">>)
Percentages == {0, 50, 100}

\* The endpoints a window is built from
Endpoints ==
  {EndpointNone}
  \cup {EndpointPos(Position(Some(PathB), Some(n))) : n \in 0..MaxLines}
  \cup {EndpointPos(Position(Some(PathA), Some(1)))}
  \cup {EndpointStr(PositionStr(Position(Some(PathB), Some(1))))}
  \cup {Percent(n) : n \in Percentages}

\* Query(suggestor, start, end, '.', path_filter(['js']), inc_extensionless)
Query(suggestor, start, end, inc_extensionless) ==
  [suggestor |-> suggestor, _start |-> start, _end |-> end,
   extensions |-> << <<"j", "s">> >>, exclude_paths |-> <<>>,
   inc_extensionless |-> inc_extensionless, _all_patches_cache |-> None]

(***************************************************************************)
(* The state.                                                              *)
(***************************************************************************)
VARIABLES
  disk,      \* the file tree
  argv,      \* the query as the caller constructs it
  query,     \* the Query object
  gen,       \* the generator query.generate_patches()
  out,       \* the patches gen has yielded so far
  last,      \* the last operation: [op, arg, err, ret]
  hist,      \* counters: full traversals run, changes made to the tree
  session,   \* the review loop
  bookmark   \* the file .codemod.bookmark: None or its content

vars == <<disk, argv, query, gen, out, last, hist, session, bookmark>>

Last(op, arg, err, ret) == [op |-> op, arg |-> arg, err |-> err, ret |-> ret]

NoSession == [pc |-> "off", n |-> 0, yes_to_all |-> FALSE, resumed |-> FALSE,
              start0 |-> EndpointNone, quit_at |-> 0, patch |-> None, lines |-> <<>>]

Windows ==
  {<<e, EndpointNone>> : e \in Endpoints} \cup {<<EndpointNone, e>> : e \in Endpoints}
  \cup {<<Percent(0), Percent(100)>>, <<Percent(50), Percent(50)>>,
        <<EndpointPos(Position(Some(PathB), Some(0))),
          EndpointPos(Position(Some(PathB), Some(MaxLines)))>>}

StaticTrees ==
  {[p \in AllPaths |->
      CASE p = PathA -> a [] p = PathB -> File(b) [] p = PathC -> File(c)
        [] OTHER -> File(<<LineAA>>)] :
     a \in {File(<<LineAA>>), Unreadable("IOError"), Unreadable("UnicodeDecodeError")},
     b \in Contents(MaxLines),
     c \in {<<LineAA, LineB>>, <<LineB>>}}

InitCommon ==
  /\ query = argv
  /\ gen = NewGenerator
  /\ out = <<>>
  /\ last = Last("init", 0, "", None)
  /\ hist = [traversals |-> 0, edits |-> 0, static |-> TRUE, quit_at |-> 0,
             prev_start |-> EndpointNone, edited |-> None, edited_at |-> 0,
             listed |-> {}]
  /\ session = NoSession
  /\ bookmark = None

InitStatic ==
  /\ disk \in StaticTrees
  /\ argv \in {Query(s, w[1], w[2], i) : s \in Suggestors, w \in Windows, i \in BOOLEAN}
  /\ InitCommon

\* next(gen) by a caller of the library
Pull ==
  /\ gen.pc \in {"created", "suspended"}
  /\ \E r \in {GenResume(query, gen, disk)} :
         /\ gen' = r.gen
         /\ query' = r.query
         /\ out' = IF IsNone(r.yielded) THEN out ELSE Append(out, Get(r.yielded))
         /\ last' = Last("next", 0, r.err, r.yielded)
         /\ hist' = [hist EXCEPT
                       !.traversals = @ + r.traversals,
                       !.listed = IF gen.pc = "created"
                                  THEN {p \in AllPaths : disk[p].listed} ELSE @]
  /\ UNCHANGED <<disk, argv, session, bookmark>>

\* query.compute_percentile(percentage) by a caller of the library
ComputePercentile ==
  /\ hist.traversals < MaxTraversals
  /\ \E percentage \in Percentages :
       \E r \in {compute_percentile(query, percentage, disk)} :
           /\ query' = r.query
           /\ last' = Last("compute_percentile", percentage, r.err,
                           IF r.ok THEN Some(r.ret) ELSE None)
           /\ hist' = [hist EXCEPT !.traversals = @ + r.traversals]
  /\ UNCHANGED <<disk, argv, gen, out, session, bookmark>>

NextStatic == Pull

\* The query over a tree that nothing changes
SpecStatic == InitStatic /\ [][NextStatic]_vars

(***************************************************************************)
(* The patch stream over a static tree                                     *)
(***************************************************************************)

\* list(q.generate_patches()): [ok, err, patches]
generate_all(q, d) ==
  Let1(GenResume(q, NewGenerator, d), LAMBDA first : Drain(first.query, first, d, <<>>))

\* The patch list of the query without its window, over the tree as it is
FullList == generate_all([argv EXCEPT !._start = EndpointNone, !._end = EndpointNone], disk).patches

IsPrefix(s, t) == Len(s) <= Len(t) /\ SubSeq(t, 1, Len(s)) = s
Range(s) == {s[i] : i \in 1..Len(s)}

\* x comes before y in (path, start_line_number) order
PatchBefore(x, y) ==
  \/ StrLess(Get(x.path), Get(y.path))
  \/ x.path = y.path /\ x.start_line_number < y.start_line_number

\* C1: over a static tree no patch is yielded after a patch that comes
\* later in (path, start_line_number) order: the yielded sequence is
\* non-decreasing in that order.
C1_NonDecreasing ==
  \A i \in 1..Len(out) : \A j \in (i + 1)..Len(out) : ~PatchBefore(out[j], out[i])

\* C1 witness: a finished traversal that yielded patches of two files and
\* two patches of one file on different lines.
C1_Witness ==
  /\ gen.pc = "done"
  /\ \E i, j \in 1..Len(out) : out[i].path # out[j].path
  /\ \E i, j \in 1..Len(out) :
       out[i].path = out[j].path /\ out[i].start_line_number < out[j].start_line_number

\* The patches of the full list at or after position (p, n)
FromPosition(list, p, n) ==
  SelectSeq(list, LAMBDA x : \/ StrLess(p, Get(x.path))
                             \/ Get(x.path) = p /\ x.start_line_number >= n)

\* The start position is (p, n) with p a walked path, and there is no end
StartOnly ==
  /\ gen.pc # "created"
  /\ argv._end.tag = "none"
  /\ ~IsNone(gen.start_pos.path)
  /\ Get(gen.start_pos.path) \in Range(walk_directory(disk))

\* C2: with start = (p, n), p a walked path, and no end, the traversal of a
\* static tree yields exactly the patches of the unwindowed stream that are
\* in a file after p, or in p and start at line n or later, in that order.
C2_StartWindow ==
  StartOnly =>
    LET expected == FromPosition(FullList, Get(gen.start_pos.path),
                                 Get(gen.start_pos.line_number))
    IN  /\ gen.pc # "raised"
        /\ IsPrefix(out, expected)
        /\ gen.pc = "done" => out = expected

\* C2 witness: a finished traversal from (p, n) that left out a patch of an
\* earlier file and a patch of p before line n, and yielded a patch of p and
\* a patch of a later file.
C2_Witness ==
  /\ StartOnly
  /\ gen.pc = "done"
  /\ LET p == Get(gen.start_pos.path)
         n == Get(gen.start_pos.line_number)
     IN  /\ \E x \in Range(FullList) : StrLess(Get(x.path), p)
         /\ \E x \in Range(FullList) : Get(x.path) = p /\ x.start_line_number < n
         /\ \E x \in Range(out) : Get(x.path) = p
         /\ \E x \in Range(out) : StrLess(p, Get(x.path))

\* The patches of the full list that lie before position (p, n): in a file
\* before p, or in p and covering no line from n on
BeforePosition(list, p, n) ==
  SelectSeq(list, LAMBDA x : \/ StrLess(Get(x.path), p)
                             \/ Get(x.path) = p /\ x.end_line_number <= n)

\* C3 (as claimed): with end = (p, n) and no start the window is half-open:
\* a finished traversal of a static tree has yielded exactly the patches of
\* the unwindowed stream that lie before (p, n), the patch of p whose last
\* line is n - 1 (end_line_number = n) included.
C3_HalfOpenEnd ==
  (/\ gen.pc = "done"
   /\ argv._start.tag = "none"
   /\ ~IsNone(gen.end_pos.path)
   /\ Get(gen.end_pos.path) \in Range(walk_directory(disk)))
  => out = BeforePosition(FullList, Get(gen.end_pos.path), Get(gen.end_pos.line_number))

\* C6 (as claimed): the patches of the query with end = "50%" together with
\* the patches of the query with start = "50%" include every patch of a
\* non-empty full list.
C6_SplitLosesNothing ==
  (/\ gen.pc = "done"
   /\ argv._start = Percent(50)
   /\ argv._end.tag = "none"
   /\ FullList # <<>>)
  => Range(FullList) \subseteq
       Range(out) \cup
       Range(generate_all([argv EXCEPT !._start = EndpointNone, !._end = Percent(50)],
                          disk).patches)

\* The condition under which a path is to be processed: it looks like code,
\* and the path filter accepts it or extensionless files are included and
\* it has no extension
ToBeProcessed(q, path) ==
  /\ path_looks_like_code(path)
  /\ \/ the_filter(q.extensions, q.exclude_paths, path)
     \/ q.inc_extensionless /\ is_extensionless(path)

\* C11 (as claimed): every yielded patch is of a path that looks like code
\* and that the path filter accepts or, with inc_extensionless, that has no
\* extension; no patch is of a path that does not look like code.
C11_OnlyCodePaths ==
  \A i \in 1..Len(out) : ToBeProcessed(argv, Get(out[i].path))

(***************************************************************************)
(* SpecWindow: the query with a window in a file of three lines, over a    *)
(* static tree.                                                            *)
(***************************************************************************)

RegexSpanOrB == [kind |-> "alt", s |-> <<"a", NL, "b", NL, "a", "|", "b">>]
\* multiline_regex_suggestor('a\nb\na|b')
SuggestSpanOrB ==
  [kind |-> "multiline", transformation |-> "regex", regex |-> RegexSpanOrB,
   has_subst |-> FALSE, subst |-> <<>>, line_filter |-> "none"]

WindowSuggestors == {SuggestFlag, SuggestSub, SuggestSpanOrB}

WindowFile == <<LineAA, LineB, LineAA>>
WindowTrees ==
  {[p \in AllPaths |-> IF p = PathB THEN File(WindowFile) ELSE File(<<LineAA>>)]}

WindowStarts ==
  {EndpointNone} \cup {EndpointPos(Position(Some(PathB), Some(n))) : n \in 0..Len(WindowFile)}
WindowEnds ==
  {EndpointPos(Position(Some(PathB), Some(n))) : n \in 0..Len(WindowFile)}
  \cup {EndpointPos(Position(Some(PathA), Some(1)))}

InitWindow ==
  /\ disk \in WindowTrees
  /\ argv \in {Query(s, b, e, FALSE) : s \in WindowSuggestors, b \in WindowStarts,
                                       e \in WindowEnds}
  /\ InitCommon

SpecWindow == InitWindow /\ [][NextStatic]_vars

\* The candidates of the suggestor over the lines, from position st on
RECURSIVE Candidates(_, _, _)
Candidates(sugg, lines, st) ==
  LET r == SuggestorNext(sugg, lines, st)
  IN  IF r.kind = "patch" THEN <<r.patch>> \o Candidates(sugg, lines, r.st) ELSE <<>>

EndPath == Get(argv._end.pos.path)
EndLine == Get(argv._end.pos.line_number)

\* The candidates of the file at the end position's path, and the numbers of
\* those whose end_line_number is the end line or more
EndFileCandidates == Candidates(argv.suggestor, disk[EndPath].lines, 0)
AtOrPastEnd == {k \in 1..Len(EndFileCandidates) : EndFileCandidates[k].end_line_number >= EndLine}

\* C28 (as claimed): every patch yielded of the file at the end position's
\* path is a candidate that comes before the first candidate of that file
\* whose end_line_number >= the end line, and no patch is yielded of a file
\* after that path.
C28_StopsAtFirstPastEnd ==
  \A i \in 1..Len(out) :
    /\ ~StrLess(EndPath, Get(out[i].path))
    /\ Get(out[i].path) = EndPath =>
         \E j \in 1..Len(EndFileCandidates) :
           /\ [EndFileCandidates[j] EXCEPT !.path = Some(EndPath)] = out[i]
           /\ \A k \in AtOrPastEnd : j < k

\* The query is regex_suggestor's and has no window
RegexQueryWithoutWindow ==
  /\ argv.suggestor \in {SuggestFlag, SuggestSub}
  /\ argv._start = EndpointNone
  /\ argv._end = EndpointNone

\* The line is reported: the substitution changes it, or, without a
\* substitution, the pattern is found in it
LineReported(sugg, line) ==
  IF sugg.has_subst THEN re_sub(sugg.regex, sugg.subst, line) # line
  ELSE re_search(sugg.regex, line, 0).found

\* The patch for line i of the file at path
LinePatch(sugg, path, lines, i) ==
  Patch(i, Some(i + 1),
        IF sugg.has_subst
        THEN NewLinesList(<<re_sub(sugg.regex, sugg.subst, lines[i + 1])>>)
        ELSE NewLinesNone,
        Some(path))

\* One patch for every reported line of the file, in line order
ExpectedInFile(sugg, path, lines) ==
  SelectSeq([k \in 1..Len(lines) |-> LinePatch(sugg, path, lines, k - 1)],
            LAMBDA x : LineReported(sugg, lines[x.start_line_number + 1]))

\* The files the query goes through, in path order
QualifyingPaths ==
  SelectSeq(walk_directory(disk),
            LAMBDA path : PathSelected(argv, path) /\ disk[path].status = "ok")

ExpectedPatches ==
  Join([k \in 1..Len(QualifyingPaths) |->
          ExpectedInFile(argv.suggestor, QualifyingPaths[k], disk[QualifyingPaths[k]].lines)])

\* C26: with regex_suggestor and no window, generate_patches over a static
\* tree yields, file by file in path order and line by line, one patch
\* [i, i+1) for every line the substitution changes (new_lines = [the
\* substituted line]), or, without a substitution, one flagging patch for
\* every line that holds a match; it yields nothing else.
C26_OnePatchPerReportedLine ==
  RegexQueryWithoutWindow =>
    /\ IsPrefix(out, ExpectedPatches)
    /\ gen.pc = "done" => out = ExpectedPatches
    /\ gen.pc # "raised"

\* C26 witness: the traversal with a substitution ended; it yielded patches
\* of two files and passed a line that the substitution leaves unchanged.
C26_Witness ==
  /\ RegexQueryWithoutWindow
  /\ argv.suggestor = SuggestSub
  /\ gen.pc = "done"
  /\ \E i, j \in 1..Len(out) : out[i].path # out[j].path
  /\ \E k \in 1..Len(QualifyingPaths) :
       LineB \in Range(disk[QualifyingPaths[k]].lines)

(***************************************************************************)
(* SpecQuery: the Query used as a library by a consumer that changes the   *)
(* tree between pulls and calls the query's other methods.                 *)
(***************************************************************************)

QueryTrees ==
  {[p \in AllPaths |->
      CASE p = PathA -> File(<<LineAA>>) [] p = PathB -> File(b)
        [] p = PathC -> File(<<LineAA, LineB>>) [] OTHER -> File(<<LineAA>>)] :
     b \in {<<LineAA, LineB>>, <<LineAA, LineAA>>}}

QueryWindows ==
  {<<EndpointNone, EndpointNone>>, <<Percent(50), EndpointNone>>,
   <<Percent(0), Percent(100)>>,
   <<EndpointPos(Position(Some(PathB), Some(1))), Percent(50)>>}

\* A tree in which ./b.js does not exist yet
TreeWithoutB ==
  [p \in AllPaths |->
     CASE p = PathB -> Absent [] p = PathC -> File(<<LineAA, LineB>>)
       [] OTHER -> File(<<LineAA>>)]

InitQuery ==
  /\ disk \in QueryTrees \cup {TreeWithoutB}
  /\ argv \in {Query(s, w[1], w[2], FALSE) : s \in Suggestors, w \in QueryWindows}
  /\ InitCommon

\* What the consumer may leave in a file it rewrites
EditFiles ==
  {File(<<LineB>>), File(<<LineB, LineAA>>), File(<<LineBB, LineBB>>),
   Unreadable("IOError"), Unreadable("UnicodeDecodeError")}

\* The consumer rewrites, creates, removes or garbles a file between two pulls
Edit ==
  /\ hist.edits < MaxEdits
  /\ \E path \in {PathA, PathB}, f \in EditFiles :
       /\ disk[path] # f
       /\ disk' = [disk EXCEPT ![path] = f]
       /\ last' = Last("edit", 0, "", None)
  /\ hist' = [hist EXCEPT !.edits = @ + 1, !.static = FALSE,
                           !.edited = Some(CHOOSE path \in AllPaths : disk'[path] # disk[path]),
                           !.edited_at = Len(out)]
  /\ UNCHANGED <<argv, query, gen, out, session, bookmark>>

\* The consumer accepts the patch it was just handed: it loads the file,
\* applies the patch and saves the file
Accept ==
  /\ gen.pc = "suspended"
  /\ last.op = "next"
  /\ LET patch == Get(last.ret)
         f == ReadFile(disk, Get(patch.path))
         applied == apply_to(patch, f.lines)
     IN  /\ f.status = "ok"
         /\ applied.ok
         /\ disk' = [disk EXCEPT ![Get(patch.path)] = SavedFile(applied.lines)]
  /\ last' = Last("accept", 0, "", None)
  /\ hist' = [hist EXCEPT !.static = FALSE]
  /\ UNCHANGED <<argv, query, gen, out, session, bookmark>>

\* query.get_start_position() / query.get_end_position()
GetPosition(attr_name) ==
  /\ hist.traversals < MaxTraversals
  /\ \E r \in {get_position(query, attr_name, disk)} :
         /\ query' = r.query
         /\ last' = Last("get_position",
                         <<attr_name, (IF attr_name = "_start" THEN query._start
                                       ELSE query._end).tag>>,
                         r.err, r.ret)
         /\ hist' = [hist EXCEPT !.traversals = @ + r.traversals]
  /\ UNCHANGED <<disk, argv, gen, out, session, bookmark>>

GetStartPosition == GetPosition("_start")
GetEndPosition == GetPosition("_end")

\* query.get_all_patches(dont_use_cache)
GetAllPatches ==
  /\ hist.traversals < MaxTraversals
  /\ \E dont_use_cache \in BOOLEAN :
       \E r \in {get_all_patches(query, dont_use_cache, disk)} :
           /\ query' = r.query
           /\ last' = Last("get_all_patches", dont_use_cache, r.err, r.ret)
           /\ hist' = [hist EXCEPT !.traversals = @ + r.traversals]
  /\ UNCHANGED <<disk, argv, gen, out, session, bookmark>>

NextQuery ==
  \/ Pull
  \/ Edit
  \/ Accept

SpecQuery == InitQuery /\ [][NextQuery]_vars

\* C4: a patch with new lines that generate_patches has just yielded never
\* has new_lines equal to the lines [start_line_number, end_line_number) of
\* its file as the file is on disk at the yield, whatever yields, edits and
\* accepted patches came before.
C4_NeverNoOp ==
  (last.op = "next" /\ ~IsNone(last.ret) /\ ~IsNone(Get(last.ret).new_lines)) =>
    \E x \in {Get(last.ret)} : \E f \in {disk[Get(x.path)]} :
      /\ f.status = "ok"
      /\ Get(x.new_lines) # PySlice(f.lines, x.start_line_number, x.end_line_number)

\* C4 witness: a patch with new lines yielded from a file of which an
\* earlier patch was yielded, after the consumer rewrote a file.
C4_Witness ==
  /\ last.op = "next" /\ ~IsNone(last.ret) /\ ~IsNone(Get(last.ret).new_lines)
  /\ ~hist.static
  /\ Len(out) >= 2
  /\ out[Len(out) - 1].path = out[Len(out)].path
  /\ hist.edits > 0

\* A pull has just yielded a patch
JustYielded == last.op = "next" /\ last.err = "" /\ ~IsNone(last.ret)

\* C12: a patch that a pull has just yielded is what the suggestor gives on
\* the lines of the file as they are on disk, from some position of its
\* cursor on, leaving the cursor where the generator now has it; and it was
\* compared against those lines.  This holds whatever the consumer wrote to
\* the file after the earlier yields, for the line-based and the multi-line
\* suggestors.
C12_FromCurrentContent ==
  JustYielded =>
    \E x \in {Get(last.ret)} : \E f \in {disk[Get(x.path)]} :
      /\ f.status = "ok"
      /\ gen.lines = f.lines
      /\ \E st \in 0..gen.st :
           \E r \in {SuggestorNext(query.suggestor, f.lines, st)} :
             /\ r.kind = "patch"
             /\ [r.patch EXCEPT !.path = x.path] = x
             /\ r.st = gen.st
      /\ Surfaced(x, f.lines)

\* C12 witness: a patch was yielded from a file that the consumer rewrote
\* after the patch before it, of the same file, was yielded; seen with a
\* line-based suggestor.
C12_Witness ==
  /\ JustYielded
  /\ Len(out) >= 2
  /\ out[Len(out) - 1].path = out[Len(out)].path
  /\ hist.edited = out[Len(out)].path
  /\ hist.edited_at = Len(out) - 1
  /\ query.suggestor.kind = "line"

IsSorted(paths) ==
  \A i \in 1..Len(paths) : \A j \in (i + 1)..Len(paths) : StrLess(paths[i], paths[j])

\* C13: every patch yielded, and every path still to be visited, is of a
\* path that was in the tree when the run started; the paths still to be
\* visited are in path order and come after the path being processed, and
\* the patches come in path order, whatever was created, rewritten or
\* removed in the tree during the run.
C13_PathListFixed ==
  gen.pc # "created" =>
    /\ \A i \in 1..Len(out) : Get(out[i].path) \in hist.listed
    /\ \A i \in 1..Len(out) : \A j \in (i + 1)..Len(out) :
         ~StrLess(Get(out[j].path), Get(out[i].path))
    /\ Range(gen.path_list) \subseteq hist.listed
    /\ IsSorted(gen.path_list)
    /\ ~IsNone(gen.path) =>
         \A i \in 1..Len(gen.path_list) : StrLess(Get(gen.path), gen.path_list[i])

\* C13 witness: a run has ended without a patch of a file that was created
\* after the first patch was pulled, at a path after the one then being
\* processed, and that a new run would yield patches of.
C13_Witness ==
  /\ gen.pc = "done"
  /\ ~IsNone(hist.edited)
  /\ hist.edited_at >= 1
  /\ \E p \in {Get(hist.edited)} :
       /\ p \notin hist.listed
       /\ StrLess(Get(out[hist.edited_at].path), p)
       /\ \A i \in 1..Len(out) : Get(out[i].path) # p
       /\ \E x \in Range(generate_all(argv, disk).patches) : Get(x.path) = p

\* C10: no pull of generate_patches ends with the error of a failed read of
\* a file (IOError, UnicodeDecodeError), be it the first read of the file or
\* the re-read after one of its patches was yielded.
C10_UnreadableSkipped ==
  last.op = "next" => last.err \notin {"IOError", "UnicodeDecodeError"}

(***************************************************************************)
(* SpecPercent: the position methods of the Query, called by a consumer    *)
(* over a tree that changes between the calls.                             *)
(***************************************************************************)

NextPercent ==
  \/ GetStartPosition
  \/ GetEndPosition
  \/ GetAllPatches
  \/ ComputePercentile
  \/ Edit

InitPercent ==
  /\ disk \in QueryTrees
  /\ argv \in {Query(s, w[1], w[2], FALSE) : s \in Suggestors, w \in QueryWindows}
  /\ InitCommon

SpecPercent == InitPercent /\ [][NextPercent]_vars

\* The endpoint of q that attr_name names
Endpoint(q, attr_name) == IF attr_name = "_start" THEN q._start ELSE q._end

\* C7: a compute_percentile(p) that returns, returns the start position of
\* the patch at index floor(len(L) * p / 100) of the memoized full list L,
\* which over an unchanged tree is the unwindowed patch list; and
\* compute_percentile(0) over a non-empty list returns (the start position
\* of its first patch).
C7_PercentileIndex ==
  /\ (last.op = "compute_percentile" /\ last.err = "") =>
        /\ ~IsNone(query._all_patches_cache)
        /\ \E L \in {Get(query._all_patches_cache)} :
           \E index \in {(Len(L) * last.arg) \div 100} :
             /\ index < Len(L)
             /\ last.ret = Some(Position(L[index + 1].path,
                                         Some(L[index + 1].start_line_number)))
             /\ last.arg = 0 => last.ret = Some(PatchStartPosition(L[1]))
             /\ hist.static => L = FullList
  /\ (/\ last.op = "compute_percentile" /\ last.arg = 0
      /\ ~IsNone(query._all_patches_cache)
      /\ Get(query._all_patches_cache) # <<>>) => last.err = ""

\* C7 witness: compute_percentile(50) returned over a list of three or more
\* patches, a position that is not the first patch's.
C7_Witness ==
  /\ last.op = "compute_percentile" /\ last.err = "" /\ last.arg = 50
  /\ Len(Get(query._all_patches_cache)) >= 3
  /\ last.ret # Some(PatchStartPosition(Get(query._all_patches_cache)[1]))

\* C8: compute_percentile(100) over a non-empty full list returns, and
\* returns the start position of the last patch of the list.
C8_HundredIsSafe ==
  (/\ last.op = "compute_percentile" /\ last.arg = 100
   /\ ~IsNone(query._all_patches_cache)
   /\ Get(query._all_patches_cache) # <<>>) =>
    \E L \in {Get(query._all_patches_cache)} :
      /\ last.err = ""
      /\ last.ret = Some(PatchStartPosition(L[Len(L)]))

\* One step of a position method
PositionCall == last'.op \in {"get_position", "compute_percentile", "get_all_patches"}

\* C9: a get_start_position/get_end_position that resolves an "NN%"
\* endpoint stores the Position it returns in place of the endpoint; no
\* call changes an endpoint that is a Position; a call on an endpoint that
\* is a Position returns it and runs no traversal, whatever happened to the
\* tree; a call runs a traversal only if no full list is memoized or it is
\* get_all_patches(dont_use_cache=True), and only the latter replaces a
\* memoized list.
C9_ResolvedOnce ==
  [][PositionCall =>
       /\ \A a \in {"_start", "_end"} :
            Endpoint(query, a).tag = "pos" => Endpoint(query', a) = Endpoint(query, a)
       /\ (last'.op = "get_position" /\ last'.err = "") =>
            \E a \in {last'.arg[1]} :
              /\ (Endpoint(query, a).tag = "str" /\ EndsWith(Endpoint(query, a).s, <<"%">>)) =>
                    Endpoint(query', a) = EndpointPos(Get(last'.ret))
              /\ Endpoint(query, a).tag = "pos" =>
                    /\ last'.ret = Some(Endpoint(query, a).pos)
                    /\ hist'.traversals = hist.traversals
                    /\ query' = query
       /\ hist'.traversals # hist.traversals =>
            \/ IsNone(query._all_patches_cache)
            \/ last'.op = "get_all_patches" /\ last'.arg = TRUE
       /\ (~IsNone(query._all_patches_cache)
           /\ query'._all_patches_cache # query._all_patches_cache) =>
            last'.op = "get_all_patches" /\ last'.arg = TRUE]_vars

\* C9 witness: after the tree changed, a call on an endpoint given as a
\* percentage and resolved by an earlier call returned a position that a
\* fresh resolution over the tree as it is now would not give.
C9_Witness ==
  /\ last.op = "get_position" /\ last.err = ""
  /\ last.arg[2] = "pos"
  /\ Endpoint(argv, last.arg[1]).tag = "str"
  /\ hist.edits > 0
  /\ \E fresh \in {get_position(argv, last.arg[1], disk)} :
       fresh.ok /\ fresh.ret # last.ret

\* One step of get_all_patches
AllPatchesCall == last'.op = "get_all_patches"

\* C30: get_all_patches leaves the start and the end of the query as they
\* are and writes no field but the memoized list; over an unchanged tree
\* the list it returns is the patch list of the query without its window,
\* whatever the start and the end of the query are.
C30_FullListIgnoresWindow ==
  [][AllPatchesCall =>
       /\ query'._start = query._start
       /\ query'._end = query._end
       /\ [query' EXCEPT !._all_patches_cache = query._all_patches_cache] = query
       /\ disk' = disk /\ argv' = argv
       /\ (last'.err = "" /\ hist'.static) => last'.ret = FullList]_vars

\* C30 witness: the query starts at ./b.js:1, and the list get_all_patches
\* returned over the unchanged tree holds a patch of ./a.js.
C30_Witness ==
  /\ last.op = "get_all_patches" /\ last.err = ""
  /\ hist.static
  /\ query._start = EndpointPos(Position(Some(PathB), Some(1)))
  /\ \E i \in 1..Len(last.ret) : last.ret[i].path = Some(PathA)

(***************************************************************************)
(* SpecUnits: Patch and Position used on their own, on arguments drawn     *)
(* from bounded sets.                                                      *)
(***************************************************************************)

\* The line lists a patch is applied to
UnitLines == Contents(MaxLines)

\* The patches that are applied: Patch(start, end, new_lines)
UnitPatches ==
  {Patch(start, end, new_lines, None) :
     start \in 0..MaxLines,
     end \in {None} \cup {Some(n) : n \in 0..(MaxLines + 1)},
     new_lines \in {NewLinesNone, NewLinesList(<<>>), NewLinesList(<<LineBB>>),
                    NewLinesStr(LineBB \o LineB)}}

InitUnits ==
  /\ disk = TreeWithoutB
  /\ argv = Query(SuggestFlag, EndpointNone, EndpointNone, FALSE)
  /\ InitCommon

\* patch.apply_to(lines)
ApplyTo ==
  /\ \E patch \in UnitPatches, lines \in UnitLines :
       \E r \in {apply_to(patch, lines)} :
         last' = Last("apply_to", [patch |-> patch, lines |-> lines],
                      IF r.ok THEN "" ELSE "ValueError", r.lines)
  /\ UNCHANGED <<disk, argv, query, gen, out, hist, session, bookmark>>

\* C14: apply_to of a patch with new lines on a line list L with
\* 0 <= start <= end <= len(L) leaves L[0:start] ++ new_lines ++ L[end:].
C14_ApplyReplacesRange ==
  (last.op = "apply_to" /\ ~IsNone(last.arg.patch.new_lines)) =>
    \E x \in {last.arg.patch} : \E L \in {last.arg.lines} :
      (0 <= x.start_line_number /\ x.start_line_number <= x.end_line_number
       /\ x.end_line_number <= Len(L)) =>
        /\ last.err = ""
        /\ last.ret = SubSeq(L, 1, x.start_line_number) \o Get(x.new_lines)
                         \o SubSeq(L, x.end_line_number + 1, Len(L))

\* C14 witness: a patch that covers no line at the end of the list and has
\* two new lines was applied to a list of two lines, and one that covers
\* the whole list was.
C14_Witness ==
  /\ last.op = "apply_to" /\ ~IsNone(last.arg.patch.new_lines)
  /\ Len(last.arg.lines) = 2
  /\ \/ /\ last.arg.patch.start_line_number = 2
        /\ last.arg.patch.end_line_number = 2
        /\ Len(Get(last.arg.patch.new_lines)) = 2
        /\ Len(last.ret) = 4
     \/ /\ last.arg.patch.start_line_number = 0
        /\ last.arg.patch.end_line_number = 2
        /\ Len(last.ret) = Len(Get(last.arg.patch.new_lines))

\* C15: apply_to of a patch without new lines fails with the ValueError and
\* leaves the line list as it was.
C15_FlaggingNotApplied ==
  (last.op = "apply_to" /\ IsNone(last.arg.patch.new_lines)) =>
    /\ last.err = "ValueError"
    /\ last.ret = last.arg.lines

\* C15 witness: apply_to of a patch without new lines on a list of two lines
C15_Witness ==
  /\ last.op = "apply_to" /\ IsNone(last.arg.patch.new_lines)
  /\ Len(last.arg.lines) = 2
  /\ last.err = "ValueError"

\* The paths and line numbers of the positions that are built
UnitPaths ==
  {PathA, PathC, <<"a">>, <<"a", ":", "b", ".", "p", "h", "p">>, <<"a", " ", "b">>, <<>>}
\* The largest line number of a position
MaxLineNumber == 105
UnitLineNumbers == {0, 1, 7, 10, 20, MaxLineNumber}

\* What follows the path in the strings that are parsed
UnitTails ==
  {<<>>, <<":">>, <<":", "x">>, <<":", "2", "x">>, <<":", " ", "3">>, <<":", "+", "3">>,
   <<":", "-", "1">>, <<":", "3", " ">>, <<":", "-">>, <<":", "2", "0", ":">>}
  \cup {<<":">> \o NatToStr(n) : n \in UnitLineNumbers}

UnitStrings == {path \o tail : path \in UnitPaths, tail \in UnitTails}

\* Position(arg) for a string arg
ParsePosition ==
  /\ \E arg \in UnitStrings :
       \E r \in {PositionFromStr(arg)} :
         last' = Last("Position", arg, IF r.ok THEN "" ELSE "ValueError",
                      IF r.ok THEN Some(r.pos) ELSE None)
  /\ UNCHANGED <<disk, argv, query, gen, out, hist, session, bookmark>>

\* Position(str(Position(path, line_number)))
RoundTrip ==
  /\ \E path \in UnitPaths, line_number \in UnitLineNumbers :
       \E r \in {PositionFromStr(PositionStr(Position(Some(path), Some(line_number))))} :
         last' = Last("round_trip", Position(Some(path), Some(line_number)),
                      IF r.ok THEN "" ELSE "ValueError",
                      IF r.ok THEN Some(r.pos) ELSE None)
  /\ UNCHANGED <<disk, argv, query, gen, out, hist, session, bookmark>>

\* The offset of the last ":" of s (0-based), or -1
LastColon(s) == RFind(s, ":")

\* s is the text of an integer: digits, after an optional sign, within
\* optional white space
IsIntegerText(s) ==
  \E n \in 0..MaxLineNumber :
    Strip(s) \in {NatToStr(n), <<"-">> \o NatToStr(n), <<"+">> \o NatToStr(n)}

\* The integer that s is the text of
IntegerOf(s) ==
  CHOOSE v \in -MaxLineNumber..MaxLineNumber :
    \E n \in 0..MaxLineNumber :
      \/ v = n /\ Strip(s) \in {NatToStr(n), <<"+">> \o NatToStr(n)}
      \/ v = -n /\ Strip(s) = <<"-">> \o NatToStr(n)

\* C16 (as claimed): the string of Position(path, N), N >= 0, parses, and
\* parses to a position with the same path and the same line number.
C16_RoundTrip ==
  last.op = "round_trip" => last.err = "" /\ last.ret = Some(last.arg)

\* C17 (as claimed): a string with an integer after its last colon parses
\* to the path before the last colon and that integer, also when the path
\* holds a colon.
C17_LastColon ==
  (/\ last.op = "Position"
   /\ LastColon(last.arg) >= 0
   /\ IsIntegerText(PyFrom(last.arg, LastColon(last.arg) + 1))) =>
    /\ last.err = ""
    /\ last.ret = Some(Position(Some(PySlice(last.arg, 0, LastColon(last.arg))),
                                Some(IntegerOf(PyFrom(last.arg, LastColon(last.arg) + 1)))))

\* C18: a string without a colon, or with something else than an integer
\* after its last colon, gives the ValueError and no Position.
C18_MalformedFails ==
  (/\ last.op = "Position"
   /\ \/ LastColon(last.arg) < 0
      \/ ~IsIntegerText(PyFrom(last.arg, LastColon(last.arg) + 1))) =>
    /\ last.err = "ValueError"
    /\ last.ret = None

\* C18 witness: a string with a path, a colon and a line number that is no
\* integer was refused.
C18_Witness ==
  /\ last.op = "Position"
  /\ LastColon(last.arg) > 0
  /\ PyFrom(last.arg, LastColon(last.arg) + 1) # <<>>
  /\ ~IsIntegerText(PyFrom(last.arg, LastColon(last.arg) + 1))
  /\ last.err = "ValueError"

\* The offsets _index_to_row_col is called with: every offset of the
\* longest buffer, one before and some after
UnitOffsets == -1..(Len(LineAA) * MaxLines + 1)

\* _index_to_row_col(lines, index)
IndexToRowCol ==
  /\ \E lines \in UnitLines, index \in UnitOffsets :
       \E r \in {index_to_row_col(lines, index)} :
         last' = Last("_index_to_row_col", [lines |-> lines, index |-> index],
                      IF r.ok THEN "" ELSE "IndexError",
                      IF r.ok THEN Some(<<r.row, r.col>>) ELSE None)
  /\ UNCHANGED <<disk, argv, query, gen, out, hist, session, bookmark>>

\* The paths, extension lists and exclude lists the path filter is called with
FilterPaths ==
  {<<".", "/", "a", ".", "j", "s">>,
   <<".", "/", "t", "o", "o", "l", "s", "/", "n", "o", "d", "e", "_", "m", "o", "d", "u", "l", "e", "s", "/", "d", "e", "p", ".", "j", "s">>,
   <<".", "/", "B", "U", "I", "L", "D">>,
   <<".", "/", "q", ".", "j", "j", "s">>,
   <<".", "/", "h", "t", "m", "l", "/", "x", ".", "j", "s">>,
   <<".", "/", ".", "j", "s">>}
FilterExtensions ==
  {<<<<"j", "s">>>>,
   <<<<"j", "s">>, <<"B", "U", "I", "L", "D">>>>,
   <<<<"*">>>>,
   <<<<"j", "?">>>>,
   <<>>}
FilterExcludes ==
  {<<>>,
   <<<<"*", "/", "n", "o", "d", "e", "_", "m", "o", "d", "u", "l", "e", "s", "/", "*">>>>,
   <<<<"h", "t", "m", "l">>>>,
   <<<<".", "/", "h", "t", "m", "l">>>>,
   <<<<".", "/", "a", ".", "j", "s">>, <<"t", "o", "o", "l", "s">>>>}

\* path_filter(extensions, exclude_paths)(path)
PathFilter ==
  /\ \E extensions \in FilterExtensions, exclude_paths \in FilterExcludes,
        path \in FilterPaths :
       last' = Last("path_filter",
                    [extensions |-> extensions, exclude_paths |-> exclude_paths,
                     path |-> path],
                    "", the_filter(extensions, exclude_paths, path))
  /\ UNCHANGED <<disk, argv, query, gen, out, hist, session, bookmark>>

\* The path matches an entry of the allow list: the entry is a glob for the
\* extension, or the whole file name of a file without extension
MatchesAllowEntry(path, entry) ==
  IF is_extensionless(path) THEN Basename(path) = entry
  ELSE fnmatch(Tail(SplitExt(path)), entry)

\* The path matches an entry of the exclude list: the entry is a prefix of
\* the path, with or without './' before it, or a glob for the whole path
MatchesExcludeEntry(path, entry) ==
  \/ IsPrefix(entry, path)
  \/ IsPrefix(<<".", "/">> \o entry, path)
  \/ fnmatch(path, entry)

\* C25: the path filter accepts a path if and only if the path matches at
\* least one entry of the allow list and no entry of the exclude list.
C25_AllowedAndNotExcluded ==
  last.op = "path_filter" =>
    (last.ret = TRUE <=>
       /\ \E e \in Range(last.arg.extensions) : MatchesAllowEntry(last.arg.path, e)
       /\ \A e \in Range(last.arg.exclude_paths) : ~MatchesExcludeEntry(last.arg.path, e))

\* C25 witness: extensions ['js'] and exclude ['*/node_modules/*'] reject
\* './tools/node_modules/dep.js', which has an allowed extension.
C25_Witness ==
  /\ last.op = "path_filter"
  /\ last.arg.extensions = <<<<"j", "s">>>>
  /\ last.arg.exclude_paths = <<<<"*", "/", "n", "o", "d", "e", "_", "m", "o", "d", "u", "l", "e", "s", "/", "*">>>>
  /\ last.arg.path = <<".", "/", "t", "o", "o", "l", "s", "/", "n", "o", "d", "e", "_", "m", "o", "d", "u", "l", "e", "s", "/", "d", "e", "p", ".", "j", "s">>
  /\ last.ret = FALSE

\* C25 witness: the same filter accepts './a.js'.
C25_WitnessAccepted ==
  /\ last.op = "path_filter"
  /\ last.arg.extensions = <<<<"j", "s">>>>
  /\ last.arg.exclude_paths = <<<<"*", "/", "n", "o", "d", "e", "_", "m", "o", "d", "u", "l", "e", "s", "/", "*">>>>
  /\ last.arg.path = <<".", "/", "a", ".", "j", "s">>
  /\ last.ret = TRUE

\* The lists and the values Query._sublist is called with
SublistItems ==
  {<<>>} \cup {<<x>> : x \in AllPaths \ {PathTags}}
  \cup {<<x, y>> : x, y \in AllPaths \ {PathTags}}
  \cup {<<x, y, z>> : x, y, z \in AllPaths \ {PathTags}}
SublistValues == {None} \cup {Some(x) : x \in AllPaths}

\* list(Query._sublist(items, starting_value, ending_value))
Sublist ==
  /\ \E items \in SublistItems, starting_value \in SublistValues,
        ending_value \in SublistValues :
       last' = Last("_sublist",
                    [items |-> items, starting_value |-> starting_value,
                     ending_value |-> ending_value],
                    "", sublist(items, starting_value, ending_value))
  /\ UNCHANGED <<disk, argv, query, gen, out, hist, session, bookmark>>

\* The number of the first occurrence of x in items
FirstOccurrence(items, x) ==
  CHOOSE k \in 1..Len(items) : items[k] = x /\ \A j \in 1..(k - 1) : items[j] # x

\* The list is in sorted order
Ascending(items) == \A i, j \in 1..Len(items) : i < j => ~StrLess(items[j], items[i])

\* C29: for s None or an item, and e None or an item, _sublist(items, s, e)
\* is the run of items from the first occurrence of s (the first item when
\* s is None) through the first occurrence of e (the last item when e is
\* None), in the original order; of a sorted list it holds no item before s
\* and no item after e.
C29_ContiguousRun ==
  (/\ last.op = "_sublist"
   /\ IsNone(last.arg.starting_value) \/ Get(last.arg.starting_value) \in Range(last.arg.items)
   /\ IsNone(last.arg.ending_value) \/ Get(last.arg.ending_value) \in Range(last.arg.items))
  => LET items == last.arg.items
         from == IF IsNone(last.arg.starting_value) THEN 1
                 ELSE FirstOccurrence(items, Get(last.arg.starting_value))
         to == IF IsNone(last.arg.ending_value) THEN Len(items)
               ELSE FirstOccurrence(items, Get(last.arg.ending_value))
     IN  /\ last.ret = SubSeq(items, from, to)
         /\ Ascending(items) =>
              \A x \in Range(last.ret) :
                /\ ~IsNone(last.arg.starting_value)
                     => ~StrLess(x, Get(last.arg.starting_value))
                /\ ~IsNone(last.arg.ending_value)
                     => ~StrLess(Get(last.arg.ending_value), x)

\* C29 witness: of the sorted list of three paths, with the second as the
\* start and as the end, exactly the second is left.
C29_Witness ==
  /\ last.op = "_sublist"
  /\ last.arg.items = <<PathA, PathB, PathC>>
  /\ last.arg.starting_value = Some(PathB)
  /\ last.arg.ending_value = Some(PathB)
  /\ last.ret = <<PathB>>

NextUnits ==
  \/ ApplyTo
  \/ ParsePosition
  \/ RoundTrip
  \/ IndexToRowCol
  \/ PathFilter
  \/ Sublist

SpecUnits == InitUnits /\ [][NextUnits]_vars

(***************************************************************************)
(* SpecSuggestor: a suggestor's generator over a line list that its caller *)
(* may replace in place between two yields.  gen.lines is the list, gen.st *)
(* the position of the generator, out the patches it yielded.              *)
(***************************************************************************)

SuggestorsWithEmptyMatch == {SuggestMultiStar, SuggestMultiEmpty, SuggestSubStar}

RegexAPlus == [kind |-> "plus", s |-> <<"a">>]
\* multiline_regex_suggestor('a+', 'b')
SuggestMultiPlus ==
  [kind |-> "multiline", transformation |-> "regex", regex |-> RegexAPlus, has_subst |-> TRUE,
   subst |-> <<"b">>, line_filter |-> "none"]

\* multiline_regex_suggestor('a\nb')
SuggestSpanFlag ==
  [kind |-> "multiline", transformation |-> "regex", regex |-> RegexANlB, has_subst |-> FALSE,
   subst |-> <<>>, line_filter |-> "none"]
\* multiline_regex_suggestor('a*')
SuggestMultiStarFlag ==
  [kind |-> "multiline", transformation |-> "regex", regex |-> RegexAStar, has_subst |-> FALSE,
   subst |-> <<>>, line_filter |-> "none"]
SuggestorsFlagging == {SuggestSpanFlag, SuggestMultiStarFlag}

InitSuggestor ==
  /\ disk = TreeWithoutB
  /\ argv \in {Query(s, EndpointNone, EndpointNone, FALSE) :
                 s \in Suggestors \cup SuggestorsWithEmptyMatch \cup {SuggestMultiPlus}
                        \cup SuggestorsFlagging}
  /\ query = argv
  /\ gen \in {[NewGenerator EXCEPT !.lines = lines] : lines \in UnitLines}
  /\ out = <<>>
  /\ last = Last("init", 0, "", None)
  /\ hist = [traversals |-> 0, edits |-> 0, static |-> TRUE, quit_at |-> 0,
             prev_start |-> EndpointNone, edited |-> None, edited_at |-> 0,
             listed |-> {}]
  /\ session = NoSession
  /\ bookmark = None

\* next() of the generator suggestor(lines)
SuggestorPull ==
  /\ gen.pc \in {"created", "suspended"}
  /\ \E r \in {SuggestorNext(query.suggestor, gen.lines, gen.st)} :
       /\ gen' = [gen EXCEPT !.pc = CASE r.kind = "patch" -> "suspended"
                                      [] r.kind = "end" -> "done"
                                      [] OTHER -> "raised",
                             !.st = IF r.kind = "patch" THEN r.st ELSE @]
       /\ out' = IF r.kind = "patch" THEN Append(out, r.patch) ELSE out
       /\ last' = Last("suggest", gen.st, IF r.kind = "IndexError" THEN r.kind ELSE "",
                       IF r.kind = "patch" THEN Some(r.patch) ELSE None)
  /\ UNCHANGED <<disk, argv, query, hist, session, bookmark>>

\* lines[:] = ... by the caller, between two yields
ReplaceLines ==
  /\ gen.pc = "suspended"
  /\ hist.edits < MaxEdits
  /\ \E lines \in UnitLines :
       /\ lines # gen.lines
       /\ gen' = [gen EXCEPT !.lines = lines]
  /\ last' = Last("replace", 0, "", None)
  /\ hist' = [hist EXCEPT !.edits = @ + 1, !.edited_at = Len(out)]
  /\ UNCHANGED <<disk, argv, query, out, session, bookmark>>

NextSuggestor ==
  \/ SuggestorPull
  \/ ReplaceLines

SpecSuggestor == InitSuggestor /\ [][NextSuggestor]_vars

\* The suggestor has just yielded a patch
JustSuggested == last.op = "suggest" /\ ~IsNone(last.ret)

\* C19 (as claimed): every patch a suggestor yields covers at least one
\* line: end_line_number > start_line_number.
C19_SpansALine ==
  JustSuggested => Get(last.ret).end_line_number > Get(last.ret).start_line_number

\* C20: the range of a patch that a suggestor has just yielded is in the
\* line list as it is at the yield: 0 <= start_line_number and
\* end_line_number <= len(lines), also after the caller replaced the list.
C20_RangeInList ==
  JustSuggested =>
    /\ 0 <= Get(last.ret).start_line_number
    /\ Get(last.ret).start_line_number <= Len(gen.lines)
    /\ Get(last.ret).end_line_number <= Len(gen.lines)

\* C20 witness: the caller replaced the list by a one-line list, and the
\* next patch the suggestor yielded ends with the last line of that list.
C20_Witness ==
  /\ JustSuggested
  /\ hist.edits > 0
  /\ hist.edited_at = Len(out) - 1
  /\ Len(gen.lines) = 1
  /\ Get(last.ret).end_line_number = Len(gen.lines)

\* The multi-line suggestor has just yielded a patch
JustSuggestedMultiline == JustSuggested /\ query.suggestor.kind = "multiline"

\* The match the multi-line suggestor found at its last pull: last.arg is
\* the cursor the pull started from
LastMatch == re_search(query.suggestor.regex, Join(gen.lines), last.arg)

\* The characters of lines before row
LenBefore(lines, row) == Len(Join(SubSeq(lines, 1, row)))

InBuffer(lines, offset) == 0 <= offset /\ offset < Len(Join(lines))

\* The (row, col) of the character at offset, by its definition
RowColOf(lines, offset) ==
  CHOOSE rc \in {<<r, c>> : r \in 0..(Len(lines) - 1), c \in 0..Len(Join(lines))} :
    /\ rc[2] < Len(lines[rc[1] + 1])
    /\ LenBefore(lines, rc[1]) + rc[2] = offset

\* C21: with a substitution, the patch that multiline_regex_suggestor yields
\* for a match from (start_row, start_col) to its last character (end_row,
\* end_col) covers [start_row, end_row + 1), and its new_lines concatenate
\* to lines[start_row][:start_col] ++ replacement ++ lines[end_row][end_col+1:].
C21_SpliceAroundMatch ==
  (JustSuggestedMultiline /\ query.suggestor.has_subst) =>
    /\ LastMatch.found
    /\ InBuffer(gen.lines, LastMatch.start)
    /\ InBuffer(gen.lines, LastMatch.end - 1)
    /\ LET s == RowColOf(gen.lines, LastMatch.start)
           e == RowColOf(gen.lines, LastMatch.end - 1)
           patch == Get(last.ret)
       IN  /\ patch.start_line_number = s[1]
           /\ patch.end_line_number = e[1] + 1
           /\ ~IsNone(patch.new_lines)
           /\ Join(Get(patch.new_lines)) =
                PySlice(gen.lines[s[1] + 1], 0, s[2]) \o query.suggestor.subst
                  \o PyFrom(gen.lines[e[1] + 1], e[2] + 1)

\* C21 witness: 'a\nb' was found across the two lines 'aa\n', 'b\n', and the
\* one patch yielded covers both lines and holds 'ab\n'.
C21_Witness ==
  /\ JustSuggestedMultiline
  /\ query.suggestor = SuggestSpan
  /\ gen.lines = <<LineAA, LineB>>
  /\ out = <<Patch(0, Some(2), NewLinesList(<<<<"a", "b", NL>>>>), None)>>

\* C22 (as claimed): over a fixed line list every yield of
\* multiline_regex_suggestor moved the cursor forward, and the generator does
\* not stop by an error: it yields finitely many patches and then ends.
C22_EndsAfterFinitelyMany ==
  (query.suggestor.kind = "multiline" /\ hist.edits = 0) =>
    /\ JustSuggested => gen.st > last.arg
    /\ gen.pc # "raised"

\* C23 (as claimed): over a fixed line list, the match of a yielded patch
\* does not lie inside the match yielded just before it.
C23_NoMatchInsideYielded ==
  (JustSuggestedMultiline /\ hist.edits = 0 /\ last.arg > 0) =>
    LET before == re_search(query.suggestor.regex, Join(gen.lines), last.arg - 1)
    IN  ~(before.start <= LastMatch.start /\ LastMatch.end <= before.end)

\* C24: for 0 <= offset < total length, _index_to_row_col(lines, offset)
\* returns the (row, col) with sum(len(lines[i]) for i < row) + col = offset
\* and 0 <= col < len(lines[row]), and there is one such pair only; for any
\* other offset it raises IndexError and returns nothing.
C24_RowColOfOffset ==
  last.op = "_index_to_row_col" =>
    LET lines == last.arg.lines
        offset == last.arg.index
    IN  IF InBuffer(lines, offset)
        THEN /\ last.err = ""
             /\ last.ret = Some(RowColOf(lines, offset))
             /\ \A r \in 0..(Len(lines) - 1), c \in 0..Len(Join(lines)) :
                  (c < Len(lines[r + 1]) /\ LenBefore(lines, r) + c = offset)
                    => <<r, c>> = Get(last.ret)
        ELSE last.err = "IndexError" /\ IsNone(last.ret)

\* C24 witness: the offset of the first character of the second line, and
\* an offset at the total length.
C24_Witness ==
  /\ last.op = "_index_to_row_col"
  /\ last.arg.lines = <<LineAA, LineB>>
  /\ last.arg.index = Len(LineAA)
  /\ last.ret = Some(<<1, 0>>)

\* The generator of a line suggestor runs over a list that nothing replaced
LineSuggestorOverFixedList == query.suggestor.kind = "line" /\ hist.edits = 0

\* The line passes the line filter of the suggestor
PassesLineFilter(sugg, line) ==
  sugg.line_filter = "none" \/ \E i \in 1..Len(line) : line[i] = "b"

\* The patch of line_transformation_suggestor for index i: flagging when
\* the transformation returns None, else with the transformed line
PatchOfLine(sugg, lines, i) ==
  LET candidate == line_transformation(sugg, lines[i + 1])
  IN  [path |-> None, start_line_number |-> i, end_line_number |-> i + 1,
       new_lines |-> IF IsNone(candidate) THEN None ELSE Some(<<Get(candidate)>>)]

\* One patch per index whose line passes the filter, in index order
PatchesOfLines(sugg, lines) ==
  SelectSeq([k \in 1..Len(lines) |-> PatchOfLine(sugg, lines, k - 1)],
            LAMBDA x : PassesLineFilter(sugg, lines[x.start_line_number + 1]))

\* C31: over a line list L, line_transformation_suggestor yields exactly
\* one patch per index i whose line passes the line filter (every index
\* without a filter), in increasing index order, over [i, i+1): flagging
\* when the transformation returns None, else with new_lines =
\* [transformation(L[i])]; a line failing the filter yields no patch.
C31_OnePatchPerPassingLine ==
  LineSuggestorOverFixedList =>
    /\ IsPrefix(out, PatchesOfLines(query.suggestor, gen.lines))
    /\ gen.pc = "done" => out = PatchesOfLines(query.suggestor, gen.lines)
    /\ gen.pc # "raised"

\* C31 witness: with the filter "'b' in line" over 'aa\n', 'b\n' the
\* generator ended after one flagging patch, of index 1.
C31_Witness ==
  /\ LineSuggestorOverFixedList
  /\ query.suggestor = SuggestFiltered
  /\ gen.lines = <<LineAA, LineB>>
  /\ gen.pc = "done"
  /\ out = <<[path |-> None, start_line_number |-> 1, end_line_number |-> 2,
              new_lines |-> None]>>

\* C31 witness: with a transformation that returns a line, over two lines,
\* the generator ended after one patch per line.
C31_WitnessReplacing ==
  /\ LineSuggestorOverFixedList
  /\ query.suggestor = SuggestSub
  /\ gen.lines = <<LineAA, LineB>>
  /\ gen.pc = "done"
  /\ Len(out) = 2
  /\ out[2].new_lines = Some(<<LineB>>)

\* The rows of the lines that hold at least one character of the match
RowsOfMatch(lines, match) ==
  {RowColOf(lines, offset)[1] : offset \in match.start..(match.end - 1)}

\* C32 (as claimed): without a substitution, the patch that
\* multiline_regex_suggestor yields for a match is flagging and its range
\* [start_line_number, end_line_number) is exactly the set of the lines that
\* hold at least one character of the match.
C32_FlagsLinesOfMatch ==
  (JustSuggestedMultiline /\ ~query.suggestor.has_subst) =>
    /\ IsNone(Get(last.ret).new_lines)
    /\ Get(last.ret).start_line_number..(Get(last.ret).end_line_number - 1)
         = RowsOfMatch(gen.lines, LastMatch)

(***************************************************************************)
(* Spec: the program.  main() builds the query from the command line and   *)
(* calls run_interactive; the user answers the prompts; after the process  *)
(* ended the program may be run again.                                     *)
(*                                                                         *)
(* session.pc is "off" (not yet run), "searching" (run_interactive is      *)
(* about to pull the next patch), "asking" (_ask_about_patch waits at its  *)
(* prompt), "completed" (run_interactive returned), "quit" (sys.exit(0) at *)
(* a prompt) or "crashed" (an exception ended the process).                *)
(***************************************************************************)

SessionTrees ==
  {[p \in AllPaths |-> IF p = PathB THEN File(<<LineB, LineAA>>) ELSE File(<<LineAA>>)]}

\* The suggestors the sessions are run with
SessionSuggestors == {SuggestFlag, SuggestSub, SuggestMulti}

SessionWindows ==
  {<<EndpointNone, EndpointNone>>,
   <<EndpointNone, EndpointStr(PositionStr(Position(Some(PathB), Some(2))))>>}

\* What the editor may leave in the file
EditorFiles == {File(<<LineB, LineAA>>)}

Init ==
  /\ disk \in SessionTrees
  /\ argv \in {Query(s, w[1], w[2], FALSE) : s \in SessionSuggestors, w \in SessionWindows}
  /\ InitCommon

\* A variant of SavedBookmark: the bookmark holds the position after the patch
SavedBookmark_end(patch) ==
  PositionStr(Position(patch.path, Some(patch.end_line_number)))

\* _save_bookmark(patch.start_position): the content of the bookmark file
SavedBookmark(patch) == PositionStr(PatchStartPosition(patch))

\* A variant of delete_bookmark: the file is left as it is
delete_bookmark_kept(contents) == contents

\* _delete_bookmark(): the bookmark file after os.remove
delete_bookmark(contents) == None

\* _load_bookmark() on an existing file: [ok, pos]
LoadedBookmark(contents) == PositionFromStr(Strip(contents))

\* main() to the first 'for patch in suggestions': the command line is
\* parsed, the bookmark (if any) loaded and the resume offer answered
StartSession ==
  /\ session.pc \in {"off", "completed", "quit", "crashed"}
  /\ session.n < MaxSessions
  /\ \E accept_all \in BOOLEAN, resume \in {"y", "n"} :
       LET s0 == [NoSession EXCEPT !.n = session.n + 1, !.yes_to_all = accept_all]
           after_quit == session.pc = "quit"
       IN  IF IsNone(bookmark)
           THEN /\ resume = "n"
                /\ query' = argv
                /\ session' = [s0 EXCEPT !.pc = "searching", !.start0 = argv._start]
                /\ last' = Last("start", "", "", None)
                /\ hist' = [hist EXCEPT !.quit_at = 0]
           ELSE \E b \in {LoadedBookmark(Get(bookmark))} :
                  IF ~b.ok
                  THEN /\ resume = "n"
                       /\ query' = argv
                       /\ session' = [s0 EXCEPT !.pc = "crashed"]
                       /\ last' = Last("start", "", "ValueError", None)
                       /\ hist' = [hist EXCEPT !.quit_at = 0]
                  ELSE /\ query' = IF resume = "y"
                                   THEN [argv EXCEPT !._start = EndpointPos(b.pos)]
                                   ELSE argv
                       /\ session' = [s0 EXCEPT !.pc = "searching",
                                                !.resumed = (resume = "y"),
                                                !.start0 = query'._start,
                                                !.quit_at = IF after_quit /\ resume = "y"
                                                            THEN hist.quit_at ELSE 0]
                       /\ last' = Last("start", resume, "", None)
                       /\ hist' = [hist EXCEPT !.quit_at = 0,
                                                !.prev_start = session.start0]
  /\ gen' = NewGenerator
  /\ out' = <<>>
  /\ UNCHANGED <<disk, argv, bookmark>>

\* A variant of Respond: yes to all holds for the patch at hand only
Respond_forgets(p0, patch, lines, e, d, s) ==
  LET p == IF p0 = "A" THEN "y" ELSE p0
      applied == apply_to(patch, lines)
      d1 == IF p \in {"y", "E"} /\ applied.ok
            THEN [d EXCEPT ![Get(patch.path)] = SavedFile(applied.lines)] ELSE d
      d2 == IF p \in {"e", "E"} THEN [d1 EXCEPT ![Get(patch.path)] = e] ELSE d1
  IN  [disk |-> d2,
       session |-> [s EXCEPT !.yes_to_all = (p0 = "A"),
                             !.patch = None, !.lines = <<>>,
                             !.pc = IF p \in {"y", "E"} /\ ~applied.ok THEN "crashed"
                                    ELSE IF p = "q" THEN "quit" ELSE "searching"]]

\* The rest of _ask_about_patch once the answer p is known, for the patch
\* and the lines it loaded: the file tree and the session that result.
\* e is what the editor leaves in the file (the file as it is, if the editor
\* is not run or changes nothing).
Respond(p0, patch, lines, e, d, s) ==
  LET yes_to_all == s.yes_to_all \/ p0 = "A"
      p == IF p0 = "A" THEN "y" ELSE p0
      applied == apply_to(patch, lines)
      d1 == IF p \in {"y", "E"} /\ applied.ok
            THEN [d EXCEPT ![Get(patch.path)] = SavedFile(applied.lines)] ELSE d
      d2 == IF p \in {"e", "E"} THEN [d1 EXCEPT ![Get(patch.path)] = e] ELSE d1
  IN  [disk |-> d2,
       session |-> [s EXCEPT !.yes_to_all = yes_to_all,
                             !.patch = None, !.lines = <<>>,
                             !.pc = IF p \in {"y", "E"} /\ ~applied.ok THEN "crashed"
                                    ELSE IF p = "q" THEN "quit" ELSE "searching"]]

\* One turn of 'for patch in suggestions' up to the prompt: the next patch
\* is pulled, the bookmark saved and the patch presented; with yes to all a
\* patch with new lines is applied and saved without a prompt.  At the end
\* of the stream the bookmark is deleted.
NextPatch ==
  /\ session.pc = "searching"
  /\ \E r \in {GenResume(query, gen, disk)} :
       /\ gen' = r.gen
       /\ query' = r.query
       /\ last' = Last("next", "", r.err, r.yielded)
       /\ IF r.err # ""
          THEN /\ session' = [session EXCEPT !.pc = "crashed"]
               /\ UNCHANGED <<disk, bookmark, out, hist>>
          ELSE IF IsNone(r.yielded)
          THEN /\ session' = [session EXCEPT !.pc = "completed"]
               /\ bookmark' = delete_bookmark(bookmark)
               /\ UNCHANGED <<disk, out, hist>>
          ELSE \E patch \in {Get(r.yielded)} : \E f \in {ReadFile(disk, Get(patch.path))} :
                 /\ bookmark' = Some(SavedBookmark(patch))
                 /\ out' = Append(out, patch)
                 /\ IF f.status # "ok"
                    THEN /\ session' = [session EXCEPT !.pc = "crashed"]
                         /\ UNCHANGED <<disk, hist>>
                    ELSE IF ~IsNone(patch.new_lines) /\ session.yes_to_all
                    THEN \E a \in {Respond("y", patch, f.lines, disk[Get(patch.path)],
                                           disk, session)} :
                           /\ disk' = a.disk
                           /\ session' = a.session
                           /\ hist' = [hist EXCEPT !.static = FALSE]
                    ELSE /\ session' = [session EXCEPT !.pc = "asking",
                                                       !.patch = Some(patch),
                                                       !.lines = f.lines]
                         /\ UNCHANGED <<disk, hist>>
  /\ WithinBounds(disk')
  /\ UNCHANGED argv

\* A variant of Letters: every prompt offers the letters of a change
Letters_same_for_all(patch) == {"y", "n", "e", "E", "A", "q"}

\* The answers _prompt returns for the patch.  _prompt accepts an input that
\* is a substring of its letters, so the prompt of a flagging patch also
\* returns "en", "nq" and "enq", which none of the tests that follow selects.
Letters(patch) ==
  IF IsNone(patch.new_lines) THEN {"e", "n", "q", "en", "nq", "enq"}
  ELSE {"y", "n", "e", "E", "A", "q"}

\* The user answers the prompt of _ask_about_patch
AnswerPrompt ==
  /\ session.pc = "asking"
  /\ \E p \in Letters(Get(session.patch)) :
     \E e \in IF p \in {"e", "E"} /\ hist.edits < MaxEdits
              THEN {Some(f) : f \in EditorFiles} \cup {None}
              ELSE {None} :
     \E a \in {Respond(p, Get(session.patch), session.lines,
                       IF IsNone(e) THEN (IF p = "E"
                                          THEN SavedFile(apply_to(Get(session.patch),
                                                             session.lines).lines)
                                          ELSE disk[Get(Get(session.patch).path)])
                       ELSE Get(e),
                       disk, session)} :
       /\ disk' = a.disk
       /\ session' = a.session
       /\ last' = Last("answer", p, "", None)
       /\ hist' = [hist EXCEPT
                     !.static = @ /\ disk' = disk,
                     !.edits = IF IsNone(e) THEN @ ELSE @ + 1,
                     !.quit_at = IF p = "q" THEN Len(out) ELSE @]
  /\ WithinBounds(disk')
  /\ UNCHANGED <<argv, query, gen, out, bookmark>>

Next ==
  \/ StartSession
  \/ NextPatch
  \/ AnswerPrompt

Spec == Init /\ [][Next]_vars

IsSuffix(s, t) == Len(s) <= Len(t) /\ SubSeq(t, Len(t) - Len(s) + 1, Len(t)) = s

\* The session was started from the bookmark that the session before it
\* left when it was quit at its patch number session.quit_at, and no file
\* changed since the first session started
ResumedAfterQuit == hist.static /\ session.resumed /\ session.quit_at > 0

\* The patches that the session that was quit would have presented, had it
\* run to its end
QuitStream ==
  generate_all([argv EXCEPT !._start = hist.prev_start], disk).patches

\* C5: after a session over a static tree was quit at its patch k, a session
\* that accepts the resume offer presents, in the order of the quit
\* session, the patches of the quit session that are not positioned before
\* patch k: the patches presented so far are a prefix of them, all of them
\* once the session completed; patch k and every patch after it are among
\* them, and none of them lies before the bookmarked position.
C5_ResumeFromBookmark ==
  ResumedAfterQuit =>
    \E S \in {QuitStream} : \E k \in {session.quit_at} :
      /\ k <= Len(S)
      /\ \E expected \in {FromPosition(S, Get(S[k].path), S[k].start_line_number)} :
           /\ IsSuffix(SubSeq(S, k, Len(S)), expected)
           /\ \A i \in 1..Len(expected) : ~PatchBefore(expected[i], S[k])
           /\ IsPrefix(out, expected)
           /\ session.pc # "crashed"
           /\ session.pc = "completed" => out = expected

\* C5 witness: a session resumed from a quit at the second or a later patch
\* has completed and presented two or more patches.
C5_Witness ==
  /\ ResumedAfterQuit
  /\ session.quit_at >= 2
  /\ session.pc = "completed"
  /\ Len(out) >= 2

\* The text of the start position of the patch: path:line
StartPositionText(patch) ==
  Get(patch.path) \o <<":">> \o IntToStr(patch.start_line_number)

\* C27: when a patch has been pulled and while it is presented, the
\* bookmark holds the start position of that patch; when the patch stream
\* was exhausted the bookmark is deleted; when the user quit at a prompt the
\* bookmark is kept and holds the start position of the patch that was
\* being presented.
C27_BookmarkProtocol ==
  /\ (last.op = "next" /\ last.err = "" /\ ~IsNone(last.ret))
       => bookmark = Some(StartPositionText(Get(last.ret)))
  /\ session.pc = "asking"
       => bookmark = Some(StartPositionText(Get(session.patch)))
  /\ session.pc = "completed" => IsNone(bookmark)
  /\ session.pc = "quit"
       => (out # <<>> /\ bookmark = Some(StartPositionText(out[Len(out)])))

\* C27 witness: the user quit at the prompt of the second patch.
C27_Witness ==
  /\ session.pc = "quit"
  /\ Len(out) = 2
  /\ bookmark = Some(StartPositionText(out[2]))

\* C27 witness: a session that presented patches completed and left no
\* bookmark.
C27_WitnessCompleted ==
  /\ session.pc = "completed"
  /\ out # <<>>
  /\ IsNone(bookmark)

\* The patch that the review loop pulled last
Presented == out[Len(out)]

\* The lines of the file of the presented patch, as they are on disk
PresentedFile == disk[Get(Presented.path)].lines

\* C35: the lines that _ask_about_patch loads for a patch are the lines the
\* suggestor examined when it produced the patch: while the patch waits at
\* its prompt the loaded lines are the generator's lines, and after the
\* patch was applied (by the answer y or A, or without a prompt under yes
\* to all) the file holds the generator's lines with exactly the range
\* [start_line_number, end_line_number) replaced by the new lines.
C35_AppliedToExaminedLines ==
  /\ session.pc = "asking" => session.lines = gen.lines
  /\ (last.op = "answer" /\ last.arg \in {"y", "A"})
       => PresentedFile = SavedFile(apply_to(Presented, gen.lines).lines).lines
  /\ (last.op = "next" /\ last.err = "" /\ ~IsNone(last.ret)
        /\ session.pc = "searching")
       => PresentedFile = SavedFile(apply_to(Presented, gen.lines).lines).lines

\* C35 witness: the second patch of a file whose first patch was accepted
\* and changed the file has been accepted in its turn.
C35_Witness ==
  /\ last.op = "answer"
  /\ last.arg = "y"
  /\ Len(out) >= 2
  /\ out[Len(out) - 1].path = Presented.path
  /\ ~hist.static
  /\ hist.edits = 0
  /\ PresentedFile # gen.lines

\* C38: the review loop never calls apply_to on a flagging patch: a flagging
\* patch that was pulled waits at its prompt with its file untouched, also
\* under yes to all; every answer to that prompt is one of e, n, q or a run
\* of them, none of which ends the session by an exception, and every answer
\* but e leaves the file as the suggestor examined it.
C38_FlaggingNeverApplied ==
  /\ (last.op = "next" /\ last.err = "" /\ ~IsNone(last.ret)
        /\ IsNone(Get(last.ret).new_lines))
       => (session.pc = "asking" /\ PresentedFile = gen.lines)
  /\ (last.op = "answer" /\ IsNone(Presented.new_lines))
       => /\ last.arg \in {"e", "n", "q", "en", "nq", "enq"}
          /\ session.pc \in {"searching", "quit"}
          /\ last.arg # "e" => PresentedFile = gen.lines

\* C38 witness: under yes to all a flagging patch waits at its prompt.
C38_Witness ==
  /\ session.pc = "asking"
  /\ session.yes_to_all
  /\ IsNone(Get(session.patch).new_lines)

\* C38 witness: the prompt of a flagging patch was answered with an input of
\* two letters.
C38_WitnessAnswered ==
  /\ last.op = "answer"
  /\ last.arg = "en"
  /\ IsNone(Presented.new_lines)
  /\ session.pc = "searching"

\* C39: once yes to all is set it stays set to the end of the session; from
\* then on a patch with new lines is applied and saved as it is pulled,
\* without a prompt, a prompt is only shown for a flagging patch, and an
\* answer other than e to such a prompt leaves the file tree as it is.
C39_YesToAllStays ==
  [][(session.yes_to_all /\ session'.n = session.n) =>
       /\ session'.yes_to_all
       /\ session'.pc = "asking" => IsNone(Get(session'.patch).new_lines)
       /\ (last'.op = "next" /\ last'.err = "" /\ ~IsNone(last'.ret)
             /\ ~IsNone(Get(last'.ret).new_lines))
            => /\ session'.pc = "searching"
               /\ disk'[Get(Get(last'.ret).path)].lines
                    = SavedFile(apply_to(Get(last'.ret), gen'.lines).lines).lines
       /\ (last'.op = "answer" /\ last'.arg # "e") => disk' = disk]_vars

\* C39 witness: under yes to all the second patch of the session was applied
\* as it was pulled.
C39_Witness ==
  /\ session.yes_to_all
  /\ session.pc = "searching"
  /\ last.op = "next"
  /\ Len(out) = 2
  /\ ~IsNone(Presented.new_lines)
  /\ PresentedFile = SavedFile(apply_to(Presented, gen.lines).lines).lines
  /\ PresentedFile # gen.lines

\* C39 witness: the user answered A at the prompt of the second patch.
C39_WitnessAnswerA ==
  /\ last.op = "answer"
  /\ last.arg = "A"
  /\ Len(out) = 2
  /\ session.yes_to_all

(***************************************************************************)
(* SpecResume: the program run in a directory where an earlier session     *)
(* left its bookmark, after which ./b.js may have been removed.            *)
(***************************************************************************)

\* ./b.js without the leading ./ that the walk gives its paths
PathBPlain == <<"b", ".", "j", "s">>

ResumeTrees == SessionTrees \cup {TreeWithoutB}

\* The content of the bookmark file that the earlier session left
ResumeBookmarks ==
  {PositionStr(Position(Some(PathB), Some(1))),
   PositionStr(Position(Some(PathBPlain), Some(1))),
   PositionStr(Position(Some(PathA), Some(0)))}

InitResume ==
  /\ disk \in ResumeTrees
  /\ argv \in {Query(s, EndpointNone, EndpointNone, FALSE) : s \in SessionSuggestors}
  /\ query = argv
  /\ gen = NewGenerator
  /\ out = <<>>
  /\ last = Last("init", 0, "", None)
  /\ hist = [traversals |-> 0, edits |-> 0, static |-> TRUE, quit_at |-> 0,
             prev_start |-> EndpointNone, edited |-> None, edited_at |-> 0,
             listed |-> {}]
  /\ session = NoSession
  /\ bookmark \in {Some(b) : b \in ResumeBookmarks}

SpecResume == InitResume /\ [][Next]_vars

\* The paths that os.walk reports
WalkedPaths == {walk_directory(disk)[i] : i \in 1..Len(walk_directory(disk))}

\* The session runs from a bookmark whose path the walk does not report
StartNotWalked ==
  /\ session.pc \notin {"off"}
  /\ session.resumed
  /\ session.start0.tag = "pos"
  /\ ~IsNone(session.start0.pos.path)
  /\ Get(session.start0.pos.path) \notin WalkedPaths

\* C40: when the path of the start position is not among the walked paths,
\* generate_patches yields no patch: the session resumed from such a
\* bookmark presents nothing, its first pull ends the stream, and the
\* session completes with the bookmark deleted.
C40_NothingFromUnwalkedStart ==
  StartNotWalked =>
    /\ out = <<>>
    /\ gen.pc \in {"created", "done"}
    /\ session.pc \in {"searching", "completed"}
    /\ last.op = "next" => (session.pc = "completed" /\ IsNone(bookmark))

\* C40 witness: ./b.js was removed, the session resumed from the bookmark
\* ./b.js:1 has completed without a patch and deleted the bookmark, although
\* ./c:d.js, which sorts after ./b.js, holds lines for which the query
\* without a start position has patches.
C40_Witness ==
  /\ StartNotWalked
  /\ session.start0.pos.path = Some(PathB)
  /\ session.pc = "completed"
  /\ IsNone(bookmark)
  /\ out = <<>>
  /\ PathC \in WalkedPaths
  /\ \E i \in 1..Len(generate_all(argv, disk).patches) :
        generate_all(argv, disk).patches[i].path = Some(PathC)

\* C40 witness: the bookmark names ./b.js as b.js, the file exists, and the
\* resumed session completed without a patch.
C40_WitnessSpelling ==
  /\ StartNotWalked
  /\ session.start0.pos.path = Some(PathBPlain)
  /\ PathB \in WalkedPaths
  /\ session.pc = "completed"
  /\ out = <<>>

(***************************************************************************)
(* SpecExclude: the query with an exclude list in its path filter, over a  *)
(* static tree that holds the extensionless file ./d.                      *)
(***************************************************************************)

PathD == <<".", "/", "d">>

ExcludeTrees ==
  {[p \in AllPaths \cup {PathD} |-> IF p = PathB THEN File(b) ELSE File(<<LineAA>>)] :
     b \in {<<LineAA>>, <<LineB, LineAA>>}}

\* The lists given as exclude_paths
ExcludeLists ==
  {<< <<"d">> >>, << <<"b", ".", "j", "s">> >>, << <<"d">>, <<"*", "b", "*">> >>,
   << <<"t", "a", "g", "s">> >>}

\* Query(suggestor, root_directory='.', path_filter=path_filter(['js'],
\* exclude_paths), inc_extensionless=inc_extensionless)
QueryExcluding(suggestor, exclude_paths, inc_extensionless) ==
  [Query(suggestor, EndpointNone, EndpointNone, inc_extensionless)
     EXCEPT !.exclude_paths = exclude_paths]

InitExclude ==
  /\ disk \in ExcludeTrees
  /\ argv \in {QueryExcluding(s, x, i) :
                 s \in {SuggestFlag, SuggestSub, SuggestMulti},
                 x \in ExcludeLists, i \in BOOLEAN}
  /\ InitCommon

SpecExclude == InitExclude /\ [][NextStatic]_vars

\* The path matches an entry of the exclude list (the test that the_filter
\* makes for each entry)
Excluded(exclude_paths, path) ==
  \E i \in 1..Len(exclude_paths) :
    \/ StartsWith(path, exclude_paths[i])
    \/ StartsWith(path, <<".", "/">> \o exclude_paths[i])
    \/ fnmatch(path, exclude_paths[i])

\* C37 (as claimed): generate_patches yields no patch for a path that
\* matches an entry of the exclude list of the query's path filter, whatever
\* inc_extensionless is.
C37_NoPatchForExcludedPath ==
  \A i \in 1..Len(out) : ~Excluded(query.exclude_paths, Get(out[i].path))

(***************************************************************************)
(* SpecAccept: the Query used as a library by a consumer that applies      *)
(* every patch it is handed and saves the file before it pulls the next    *)
(* one, over a tree that holds the one file ./b.js.  hist.examined holds   *)
(* the lines that a line suggestor was handed, hist.produced the lines     *)
(* that the accepted patches wrote.                                        *)
(***************************************************************************)

LineA == <<"a", NL>>
LineABAB == <<"a", "b", "a", "b", NL>>

RegexAB == [kind |-> "lit", s |-> <<"a", "b">>]
RegexANl == [kind |-> "lit", s |-> <<"a", NL>>]
RegexAA == [kind |-> "lit", s |-> <<"a", "a">>]

\* multiline_regex_suggestor('ab', '')
SuggestMultiDelete ==
  [kind |-> "multiline", transformation |-> "regex", regex |-> RegexAB, has_subst |-> TRUE,
   subst |-> <<>>, line_filter |-> "none"]
\* regex_suggestor('a\n', 'b')
SuggestJoin ==
  [kind |-> "line", transformation |-> "regex", regex |-> RegexANl, has_subst |-> TRUE,
   subst |-> <<"b">>, line_filter |-> "none"]
\* regex_suggestor('aa', 'b\nb')
SuggestSplit ==
  [kind |-> "line", transformation |-> "regex", regex |-> RegexAA, has_subst |-> TRUE,
   subst |-> <<"b", NL, "b">>, line_filter |-> "none"]

AcceptSuggestors == {SuggestSub, SuggestMulti, SuggestMultiDelete, SuggestJoin, SuggestSplit}

\* The contents of ./b.js
AcceptFiles ==
  {<<l>> : l \in {LineA, LineAA, LineB, LineABAB}}
  \cup {<<l, m>> : l, m \in {LineA, LineAA, LineB, LineABAB}}
  \cup {<<LineA, LineA, LineA>>}

InitAccept ==
  /\ disk \in {[p \in {PathB} |-> File(b)] : b \in AcceptFiles}
  /\ argv \in {Query(s, EndpointNone, EndpointNone, FALSE) : s \in AcceptSuggestors}
  /\ query = argv
  /\ gen = NewGenerator
  /\ out = <<>>
  /\ last = Last("init", 0, "", None)
  /\ hist = [examined |-> {}, produced |-> {}]
  /\ session = NoSession
  /\ bookmark = None

\* One turn of 'for patch in query.generate_patches()' of the consumer: the
\* next patch is pulled (the generator first reads the file again), then
\* the consumer loads the file, applies the patch and saves the file
AcceptNext ==
  /\ gen.pc \in {"created", "suspended"}
  /\ \E r \in {GenResume(query, gen, disk)} :
       /\ gen' = r.gen
       /\ query' = r.query
       /\ out' = IF IsNone(r.yielded) THEN out ELSE Append(out, Get(r.yielded))
       /\ last' = Last("next", 0, r.err, r.yielded)
       /\ \E reread \in {disk[PathB].lines} :
          \E upto \in {IF IsNone(r.yielded) THEN Len(reread) ELSE r.gen.st} :
            hist' = [hist EXCEPT
                       !.examined = IF query.suggestor.kind = "line"
                                    THEN @ \cup {reread[i] : i \in (gen.st + 1)..upto}
                                    ELSE @,
                       !.produced = IF IsNone(r.yielded) THEN @
                                    ELSE @ \cup Range(Splitlines(Join(
                                                 Get(Get(r.yielded).new_lines))))]
       /\ IF IsNone(r.yielded) THEN disk' = disk
          ELSE \E patch \in {Get(r.yielded)} :
                 disk' = [disk EXCEPT ![Get(patch.path)] =
                            SavedFile(apply_to(patch, disk[Get(patch.path)].lines).lines)]
  /\ UNCHANGED <<argv, session, bookmark>>

SpecAccept == InitAccept /\ [][AcceptNext]_vars

\* The text of ./b.js as it is on disk
TextOnDisk == Join(disk[PathB].lines)

\* C33 (as claimed): with multiline_regex_suggestor and a substitution,
\* when the consumer applied the patch of the match that started at offset
\* m and saved the file, and the text read again holds a match that starts
\* at offset m or after it, the next pull yields the patch of the first
\* such match.
C33_NoMatchSkippedAfterAccept ==
  [][(/\ query.suggestor.kind = "multiline"
      /\ gen.pc = "suspended"
      /\ last'.op = "next"
      /\ re_search(query.suggestor.regex, TextOnDisk, gen.st - 1).found)
     => /\ ~IsNone(last'.ret)
        /\ gen'.st = re_search(query.suggestor.regex, TextOnDisk, gen.st - 1).start + 1]_vars

\* C34 (as claimed): with a line suggestor, when the traversal of the file
\* has ended and every patch was applied, every line of the file was handed
\* to the suggestor as it stands now, or was written by an accepted patch.
C34_NoLineSkipped ==
  (query.suggestor.kind = "line" /\ gen.pc = "done")
    => \A i \in 1..Len(disk[PathB].lines) :
         disk[PathB].lines[i] \in hist.examined \cup hist.produced

(***************************************************************************)
(* SpecAcceptAll: the program run with a substitution over a tree that     *)
(* holds the one file ./b.js.  The process runs on by itself from one      *)
(* patch to the next, which is the fairness of NextPatch; nothing makes    *)
(* the user answer a prompt or run the program again.                      *)
(***************************************************************************)

\* regex_suggestor('a', 'a\na')
SuggestGrow ==
  [kind |-> "line", transformation |-> "regex", regex |-> RegexA, has_subst |-> TRUE,
   subst |-> <<"a", NL, "a">>, line_filter |-> "none"]
\* multiline_regex_suggestor('a', 'aa')
SuggestMultiGrow ==
  [kind |-> "multiline", transformation |-> "regex", regex |-> RegexA, has_subst |-> TRUE,
   subst |-> <<"a", "a">>, line_filter |-> "none"]

AcceptAllSuggestors == {SuggestSub, SuggestMulti, SuggestSplit, SuggestGrow, SuggestMultiGrow}

InitAcceptAll ==
  /\ disk \in {[p \in {PathB} |-> File(b)] :
                 b \in {<<LineA>>, <<LineB, LineAA>>, <<LineAA, LineA>>}}
  /\ argv \in {Query(s, EndpointNone, EndpointNone, FALSE) : s \in AcceptAllSuggestors}
  /\ query = argv
  /\ gen = NewGenerator
  /\ out = <<>>
  /\ last = Last("init", "", "", None)
  /\ hist = [traversals |-> 0, edits |-> 0, static |-> TRUE, quit_at |-> 0,
             prev_start |-> EndpointNone, edited |-> None, edited_at |-> 0,
             listed |-> {}]
  /\ session = NoSession
  /\ bookmark = None

SpecAcceptAll == InitAcceptAll /\ [][Next]_vars /\ WF_vars(NextPatch)

====
